------------------------- MODULE NotificationsProofs -------------------------
(***************************************************************************)
(* Proofs about Notifications: the runner is a bounded queue, Stop waits   *)
(* for it, mails are sent twice only for the two reasons DuplicateIsExplained  *)
(* names, and send records agree with what was delivered.                  *)
(*                                                                         *)
(* Two inductive invariants. RunnerInductive is about the tasks: an        *)
(* accepted task is in the queue once, and one thread at most runs it.     *)
(* MessagesInductive needs it, because the records of a notice are created *)
(* by the one thread that runs its task, and adds what each thread knows   *)
(* of the record it works on while nobody else does.                       *)
(***************************************************************************)
EXTENDS Notifications, SequenceTheorems, TLAPS

QueuedOnce == \A i, j \in 1 .. Len(queue) : queue[i] = queue[j] => i = j

\* The queue holds exactly the tasks that wait.
QueuedWait == \A n \in Tasks : fate[n] = "waiting" <=> \E i \in 1 .. Len(queue) : queue[i] = n

\* A task that runs is being worked on, by one thread.
OneThreadRuns ==
  \A t \in Threads : running[t] # NoTask =>
    /\ fate[running[t]] = "working"
    /\ \A u \in Threads : running[u] = running[t] => u = t

\* The queue is empty and the workers idle before Start, and once Stop has
\* returned in time.
Resting == queue = <<>> /\ \A w \in Workers : running[w] = NoTask
Emptied ==
  /\ ~started /\ ~stopping => Resting
  /\ stage # "running" => stopping
  /\ stage = "stopped" /\ ~timedOut => Resting

RunnerInductive ==
  /\ RunnerTypeOK
  /\ stage \in {"running", "stopping", "stopped"} /\ timedOut \in BOOLEAN
  /\ QueuedOnce /\ QueuedWait /\ OneThreadRuns /\ Emptied

-----------------------------------------------------------------------------
(* Threads and records. *)

Status(k) == record[k].status
Works(s, k) == sender[s].key = k

SenderState ==
  [at : Places, key : Keys \cup {None}, notice : Notices \cup {None},
   todo : SUBSET Recipients, ready : BOOLEAN, seen : 0 .. MaxRetries]

\* What a thread holds at each place of its work: the record it works on exists,
\* those of the recipients it has still to reach do not.
ThreadShape(s) ==
  /\ sender[s].at = "idle" => sender[s] = Idle
  /\ sender[s].key = None <=> sender[s].at \in {"idle", "next"}
  /\ sender[s].key # None => Status(sender[s].key) # "none"
  /\ sender[s].at = "next" => sender[s].notice # None
  /\ sender[s].notice # None =>
       /\ running[s] = sender[s].notice
       /\ \A r \in sender[s].todo : Status(<<sender[s].notice, r>>) = "none"
  /\ sender[s].at = "bump" => sender[s].seen < MaxRetries

\* A notice has no records before its task runs.
NothingAhead ==
  \A n \in Notices : fate[n] \in {"new", "waiting"} =>
    \A r \in Recipients : Status(<<n, r>>) = "none"

AloneOn(k) == \A s, t \in Senders : Works(s, k) /\ Works(t, k) => s = t

\* The retry count bounds the attempts, also while it is being raised.
AttemptsCounted(k) ==
  /\ attempts[k] <= 1 + MaxRetries
  /\ Live(k) => attempts[k] <= 1 + record[k].retries
  /\ Status(k) = "none" => attempts[k] = 0
  /\ \A s \in Senders : Works(s, k) =>
       /\ sender[s].at = "bump" => /\ attempts[k] <= 1 + sender[s].seen
                                   /\ Live(k) => record[k].retries = sender[s].seen
       /\ sender[s].at = "send" => /\ attempts[k] <= MaxRetries
                                   /\ Live(k) => attempts[k] <= record[k].retries

\* What was delivered shows in the record, or in the thread that will write it.
DeliveryKnown(k) ==
  /\ delivered[k] <= 1
  /\ Status(k) = "none" => delivered[k] = 0
  /\ \A s \in Senders : Works(s, k) =>
       /\ Status(k) # "success"
       /\ delivered[k] = IF sender[s].at = "markSuccess" THEN 1 ELSE 0
  /\ (\A s \in Senders : ~Works(s, k)) =>
       /\ Status(k) = "success" => delivered[k] = 1
       /\ Status(k) \in {"pending", "failed"} => delivered[k] = 0

\* Threads that meet on a record are recorded as overlapping, and nothing is
\* claimed of it any more.
RecordKnown(k) ==
  /\ k \notin overlapped => AloneOn(k) /\ AttemptsCounted(k)
  /\ k \notin overlapped \cup unclear => DeliveryKnown(k)

MessagesInductive ==
  /\ MessagesTypeOK
  /\ \A s \in Senders : ThreadShape(s)
  /\ NothingAhead
  /\ \A k \in Keys : RecordKnown(k)

USE QueueAssumption, RetriesAssumption, SharedAssumption, NullsAssumption

-----------------------------------------------------------------------------
(* The runner. *)

LEMMA RunnerStarts == Init => RunnerInductive
<1> SUFFICES ASSUME Init PROVE RunnerInductive OBVIOUS
<1>1. /\ started = FALSE /\ stopping = FALSE /\ queue = <<>> /\ Len(queue) = 0
      /\ running = [t \in Threads |-> NoTask] /\ fate = [n \in Tasks |-> "new"]
      /\ stage = "running" /\ timedOut = FALSE
  BY DEF Init, RunnerInit
<1>2. RunnerTypeOK
  <2>1. queue \in Seq(Tasks) /\ Len(queue) <= QueueSize BY <1>1
  <2>2. /\ running \in [Threads -> Tasks \cup {NoTask}] /\ fate \in [Tasks -> Fates]
        /\ started \in BOOLEAN /\ stopping \in BOOLEAN
    BY <1>1 DEF Fates
  <2> QED BY <2>1, <2>2 DEF RunnerTypeOK
<1>3. QueuedOnce /\ QueuedWait /\ OneThreadRuns /\ Emptied
  BY <1>1 DEF QueuedOnce, QueuedWait, OneThreadRuns, Emptied, Resting, Threads
<1> QED BY <1>1, <1>2, <1>3 DEF RunnerInductive

\* What the queue holds once a task is appended, and once its head is taken.
LEMMA QueueSteps ==
  ASSUME RunnerInductive
  PROVE  /\ queue \in Seq(Tasks) /\ Len(queue) \in Nat
         /\ \A n \in Tasks :
              /\ Append(queue, n) \in Seq(Tasks) /\ Len(Append(queue, n)) = Len(queue) + 1
              /\ \A i \in 1 .. Len(queue) : Append(queue, n)[i] = queue[i]
              /\ Append(queue, n)[Len(queue) + 1] = n
         /\ queue # <<>> =>
              /\ Len(queue) > 0 /\ Head(queue) = queue[1] /\ Head(queue) \in Tasks
              /\ Tail(queue) \in Seq(Tasks) /\ Len(Tail(queue)) = Len(queue) - 1
              /\ \A i \in 1 .. Len(queue) - 1 : Tail(queue)[i] = queue[i + 1]
<1>1. queue \in Seq(Tasks) BY DEF RunnerInductive, RunnerTypeOK
<1>2. \A n \in Tasks :
        /\ Append(queue, n) \in Seq(Tasks) /\ Len(Append(queue, n)) = Len(queue) + 1
        /\ \A i \in 1 .. Len(queue) : Append(queue, n)[i] = queue[i]
        /\ Append(queue, n)[Len(queue) + 1] = n
  BY <1>1, AppendProperties
<1>3. queue # <<>> =>
        /\ Len(queue) > 0 /\ Head(queue) = queue[1] /\ Head(queue) \in Tasks
        /\ Tail(queue) \in Seq(Tasks) /\ Len(Tail(queue)) = Len(queue) - 1
        /\ \A i \in 1 .. Len(queue) - 1 : Tail(queue)[i] = queue[i + 1]
  BY <1>1
<1> QED BY <1>1, <1>2, <1>3

LEMMA SubmitPreserves ==
  ASSUME RunnerInductive, NEW n \in Notices, SubmitNotice(n)
  PROVE  RunnerInductive'
<1>1. /\ fate[n] = "new" /\ (stopping \/ started)
      /\ UNCHANGED <<started, stopping, running, stage, timedOut>>
      /\ fate \in [Tasks -> Fates]
  BY DEF SubmitNotice, Submit, shutVars, RunnerInductive, RunnerTypeOK
<1>2. \A i \in 1 .. Len(queue) : queue[i] # n
  BY <1>1, QueueSteps DEF RunnerInductive, QueuedWait
<1>3. CASE queue' = Append(queue, n) /\ fate' = [fate EXCEPT ![n] = "waiting"]
           /\ ~stopping /\ Len(queue) < QueueSize
  <2>1. Len(queue') = Len(queue) + 1 /\ \A i \in 1 .. Len(queue') :
          queue'[i] = IF i = Len(queue) + 1 THEN n ELSE queue[i]
    BY <1>3, QueueSteps
  <2>2. RunnerTypeOK'
    BY <1>1, <1>3, QueueSteps DEF RunnerInductive, RunnerTypeOK, Fates
  <2>3. QueuedOnce'
    BY <1>2, <2>1, QueueSteps DEF RunnerInductive, QueuedOnce
  <2>4. QueuedWait'
    BY <1>1, <1>2, <1>3, <2>1, QueueSteps DEF RunnerInductive, QueuedWait
  <2>5. OneThreadRuns'
    BY <1>1, <1>3 DEF RunnerInductive, OneThreadRuns, RunnerTypeOK
  <2>6. Emptied' BY <1>1, <1>3 DEF RunnerInductive, Emptied, Resting
  <2> QED BY <1>1, <2>2, <2>3, <2>4, <2>5, <2>6 DEF RunnerInductive
<1>4. CASE queue' = queue /\ (\/ fate' = [fate EXCEPT ![n] = "refused"]
                              \/ fate' = [fate EXCEPT ![n] = "full"])
  <2>1. RunnerTypeOK' BY <1>1, <1>4 DEF RunnerInductive, RunnerTypeOK, Fates
  <2>2. QueuedOnce' BY <1>4 DEF RunnerInductive, QueuedOnce
  <2>3. QueuedWait' BY <1>1, <1>2, <1>4 DEF RunnerInductive, QueuedWait
  <2>4. OneThreadRuns' BY <1>1, <1>4 DEF RunnerInductive, OneThreadRuns, RunnerTypeOK
  <2>5. Emptied' BY <1>1, <1>4 DEF RunnerInductive, Emptied, Resting
  <2> QED BY <1>1, <2>1, <2>2, <2>3, <2>4, <2>5 DEF RunnerInductive
<1> QED BY <1>1, <1>3, <1>4 DEF SubmitNotice, Submit

LEMMA InlinePreserves ==
  ASSUME RunnerInductive, NEW c \in Publishers, NEW n \in Notices, RunInline(c, n)
  PROVE  RunnerInductive'
<1>1. /\ fate[n] = "new" /\ UNCHANGED <<started, stopping, queue, stage, timedOut>>
      /\ running' = [running EXCEPT ![c] = n] /\ fate' = [fate EXCEPT ![n] = "working"]
      /\ c \in Threads /\ running \in [Threads -> Tasks \cup {NoTask}]
      /\ fate \in [Tasks -> Fates]
  BY DEF RunInline, SubmitInline, shutVars, RunnerInductive, RunnerTypeOK, Threads
<1>2. \A t \in Threads : running[t] # n
  BY <1>1 DEF RunnerInductive, OneThreadRuns
<1>3. RunnerTypeOK' BY <1>1 DEF RunnerInductive, RunnerTypeOK, Fates
<1>4. QueuedOnce' BY <1>1 DEF RunnerInductive, QueuedOnce
<1>7. Emptied'
  <2>1. \A w \in Workers : running'[w] = running[w]
    <3>1. \A w \in Workers : w \in Threads /\ w # c BY DEF Threads
    <3> QED BY <1>1, <3>1
  <2> QED BY <1>1, <2>1 DEF RunnerInductive, Emptied, Resting
<1>5. QueuedWait' BY <1>1 DEF RunnerInductive, QueuedWait
<1>6. OneThreadRuns'
  <2> SUFFICES ASSUME NEW t \in Threads, running'[t] # NoTask
               PROVE  /\ fate'[running'[t]] = "working"
                      /\ \A u \in Threads : running'[u] = running'[t] => u = t
    BY DEF OneThreadRuns
  <2>1. CASE t = c BY <1>1, <1>2, <2>1
  <2>2. CASE t # c
    <3>1. running'[t] = running[t] /\ running[t] # n /\ running[t] \in Tasks
      BY <1>1, <1>2, <2>2
    <3> QED BY <1>1, <3>1 DEF RunnerInductive, OneThreadRuns
  <2> QED BY <2>1, <2>2
<1> QED BY <1>1, <1>3, <1>4, <1>5, <1>6, <1>7 DEF RunnerInductive

LEMMA TakePreserves ==
  ASSUME RunnerInductive, NEW w \in Workers, TakeNotice(w)
  PROVE  RunnerInductive'
<1>1. /\ queue # <<>> /\ UNCHANGED <<started, stopping, stage, timedOut>>
      /\ queue' = Tail(queue) /\ running' = [running EXCEPT ![w] = Head(queue)]
      /\ fate' = [fate EXCEPT ![Head(queue)] = "working"]
      /\ w \in Threads /\ running \in [Threads -> Tasks \cup {NoTask}]
      /\ fate \in [Tasks -> Fates]
  BY DEF TakeNotice, TakeTask, shutVars, RunnerInductive, RunnerTypeOK, Threads
<1>2. /\ Head(queue) \in Tasks /\ fate[Head(queue)] = "waiting"
      /\ \A i \in 1 .. Len(queue') : queue'[i] = queue[i + 1] /\ queue'[i] # Head(queue)
      /\ Len(queue') = Len(queue) - 1 /\ Len(queue) > 0
  <2>1. /\ Len(queue) \in Nat /\ Len(queue) > 0 /\ Head(queue) = queue[1]
        /\ Head(queue) \in Tasks /\ Len(queue') = Len(queue) - 1
        /\ \A i \in 1 .. Len(queue) - 1 : queue'[i] = queue[i + 1]
    BY <1>1, QueueSteps
  <2>2. 1 \in 1 .. Len(queue) BY <2>1
  <2>3. fate[Head(queue)] = "waiting" BY <2>1, <2>2 DEF RunnerInductive, QueuedWait
  <2>4. ASSUME NEW i \in 1 .. Len(queue')
        PROVE  queue'[i] = queue[i + 1] /\ queue'[i] # Head(queue)
    <3>1. i \in 1 .. Len(queue) - 1 /\ i + 1 \in 1 .. Len(queue) /\ i + 1 # 1 BY <2>1
    <3>2. queue[i + 1] # queue[1] BY <2>2, <3>1 DEF RunnerInductive, QueuedOnce
    <3> QED BY <2>1, <3>1, <3>2
  <2> QED BY <2>1, <2>3, <2>4
<1>3. \A t \in Threads : running[t] # Head(queue)
  BY <1>2 DEF RunnerInductive, OneThreadRuns
<1>4. RunnerTypeOK'
  BY <1>1, <1>2, QueueSteps DEF RunnerInductive, RunnerTypeOK, Fates
<1>5. QueuedOnce'
  <2> SUFFICES ASSUME NEW i \in 1 .. Len(queue'), NEW j \in 1 .. Len(queue'),
                      queue'[i] = queue'[j]
               PROVE  i = j
    BY DEF QueuedOnce
  <2>1. i + 1 \in 1 .. Len(queue) /\ j + 1 \in 1 .. Len(queue)
    BY <1>2, QueueSteps
  <2>2. queue[i + 1] = queue[j + 1] BY <1>2
  <2>3. i + 1 = j + 1 BY <2>1, <2>2 DEF RunnerInductive, QueuedOnce
  <2> QED BY <2>3
<1>6. QueuedWait'
  <2> SUFFICES ASSUME NEW n \in Tasks
               PROVE  fate'[n] = "waiting" <=> \E i \in 1 .. Len(queue') : queue'[i] = n
    BY DEF QueuedWait
  <2>1. CASE n = Head(queue) BY <1>1, <1>2, <2>1
  <2>2. CASE n # Head(queue)
    <3>1. fate'[n] = fate[n] BY <1>1, <2>2
    <3>2. ASSUME NEW i \in 1 .. Len(queue), queue[i] = n
          PROVE  \E j \in 1 .. Len(queue') : queue'[j] = n
      <4>1. i # 1 BY <1>1, <2>2, <3>2, QueueSteps
      <4>2. i - 1 \in 1 .. Len(queue') /\ queue'[i - 1] = n
        BY <1>2, <3>2, <4>1, QueueSteps
      <4> QED BY <4>2
    <3>3. ASSUME NEW i \in 1 .. Len(queue'), queue'[i] = n
          PROVE  \E j \in 1 .. Len(queue) : queue[j] = n
      <4>1. i + 1 \in 1 .. Len(queue) /\ queue[i + 1] = n
        BY <1>2, <3>3, QueueSteps
      <4> QED BY <4>1
    <3> QED BY <3>1, <3>2, <3>3 DEF RunnerInductive, QueuedWait
  <2> QED BY <2>1, <2>2
<1>7. OneThreadRuns'
  <2> SUFFICES ASSUME NEW t \in Threads, running'[t] # NoTask
               PROVE  /\ fate'[running'[t]] = "working"
                      /\ \A u \in Threads : running'[u] = running'[t] => u = t
    BY DEF OneThreadRuns
  <2>1. CASE t = w BY <1>1, <1>2, <1>3, <2>1
  <2>2. CASE t # w
    <3>1. running'[t] = running[t] /\ running[t] # Head(queue) /\ running[t] \in Tasks
      BY <1>1, <1>3, <2>2
    <3> QED BY <1>1, <3>1 DEF RunnerInductive, OneThreadRuns
  <2> QED BY <2>1, <2>2
<1>8. Emptied' BY <1>1, QueueSteps DEF RunnerInductive, Emptied, Resting
<1> QED BY <1>1, <1>4, <1>5, <1>6, <1>7, <1>8 DEF RunnerInductive

LEMMA EndPreserves ==
  ASSUME RunnerInductive, NEW t \in Threads, FinishNotice(t) \/ Panic(t)
  PROVE  RunnerInductive'
<1>1. PICK outcome \in {"done", "lost"} : EndTask(t, outcome)
  BY DEF FinishNotice, Panic
<1>2. /\ UNCHANGED <<started, stopping, queue, stage, timedOut>>
      /\ running' = [running EXCEPT ![t] = NoTask]
      /\ fate' = [fate EXCEPT ![running[t]] = outcome]
      /\ running[t] \in Tasks /\ fate[running[t]] = "working"
      /\ running \in [Threads -> Tasks \cup {NoTask}] /\ fate \in [Tasks -> Fates]
  BY <1>1 DEF FinishNotice, Panic, EndTask, shutVars, RunnerInductive, RunnerTypeOK,
              OneThreadRuns
<1>3. RunnerTypeOK' BY <1>2 DEF RunnerInductive, RunnerTypeOK, Fates
<1>4. QueuedOnce' BY <1>2 DEF RunnerInductive, QueuedOnce
<1>7. Emptied'
  <2>1. \A w \in Workers : running[w] = NoTask => running'[w] = NoTask
    <3>1. \A w \in Workers : w \in Threads BY DEF Threads
    <3> QED BY <1>2, <3>1
  <2> QED BY <1>2, <2>1 DEF RunnerInductive, Emptied, Resting
<1>5. QueuedWait' BY <1>2 DEF RunnerInductive, QueuedWait
<1>6. OneThreadRuns'
  <2> SUFFICES ASSUME NEW v \in Threads, running'[v] # NoTask
               PROVE  /\ fate'[running'[v]] = "working"
                      /\ \A u \in Threads : running'[u] = running'[v] => u = v
    BY DEF OneThreadRuns
  <2>1. v # t /\ running'[v] = running[v] /\ running[v] # NoTask BY <1>2
  <2>2. running[v] # running[t] BY <1>2, <2>1 DEF RunnerInductive, OneThreadRuns
  <2> QED BY <1>2, <2>1, <2>2 DEF RunnerInductive, OneThreadRuns
<1> QED BY <1>2, <1>3, <1>4, <1>5, <1>6, <1>7 DEF RunnerInductive

LEMMA RestartPreserves ==
  ASSUME RunnerInductive, Restart
  PROVE  RunnerInductive'
<1>1. /\ stage' = "running" /\ timedOut' = FALSE
      /\ started' = FALSE /\ stopping' = FALSE /\ queue' = <<>> /\ Len(queue') = 0
      /\ running' = [t \in Threads |-> NoTask] /\ fate \in [Tasks -> Fates]
      /\ fate' = [n \in Tasks |-> IF fate[n] \in {"waiting", "working"} THEN "lost" ELSE fate[n]]
  BY DEF Restart, LoseTasks, RunnerInductive, RunnerTypeOK
<1>2. RunnerTypeOK'
  <2>1. (queue \in Seq(Tasks) /\ Len(queue) <= QueueSize)' BY <1>1
  <2>2. /\ running' \in [Threads -> Tasks \cup {NoTask}] /\ fate' \in [Tasks -> Fates]
        /\ started' \in BOOLEAN /\ stopping' \in BOOLEAN
    BY <1>1 DEF Fates
  <2> QED BY <2>1, <2>2 DEF RunnerTypeOK
<1>3. QueuedOnce' /\ QueuedWait' /\ OneThreadRuns' /\ Emptied'
  BY <1>1 DEF QueuedOnce, QueuedWait, OneThreadRuns, Emptied, Resting, Threads
<1> QED BY <1>1, <1>2, <1>3 DEF RunnerInductive

LEMMA StartStopPreserves ==
  ASSUME RunnerInductive, StartRunner \/ StopRunner \/ StopReturns
  PROVE  RunnerInductive'
<1>1. UNCHANGED <<queue, running, fate>>
  BY DEF StartRunner, Start, StopRunner, CloseRunner, StopReturns, runnerVars
<1>2. /\ started' \in BOOLEAN /\ stopping' \in BOOLEAN
      /\ stage' \in {"running", "stopping", "stopped"} /\ timedOut' \in BOOLEAN
  BY DEF StartRunner, Start, StopRunner, CloseRunner, StopReturns, runnerVars,
         shutVars, RunnerInductive, RunnerTypeOK
<1>3. RunnerTypeOK' BY <1>1, <1>2 DEF RunnerInductive, RunnerTypeOK
<1>4. (QueuedOnce /\ QueuedWait /\ OneThreadRuns)'
  BY <1>1 DEF RunnerInductive, QueuedOnce, QueuedWait, OneThreadRuns
<1>5. Emptied'
  <2>1. CASE StartRunner
    BY <1>1, <2>1 DEF StartRunner, Start, shutVars, RunnerInductive, Emptied, Resting
  <2>2. CASE StopRunner
    BY <1>1, <2>2 DEF StopRunner, CloseRunner, RunnerInductive, Emptied, Resting
  <2>3. CASE StopReturns
    BY <1>1, <2>3 DEF StopReturns, WorkersDone, runnerVars, RunnerInductive, Emptied, Resting
  <2> QED BY <2>1, <2>2, <2>3
<1> QED BY <1>2, <1>3, <1>4, <1>5 DEF RunnerInductive

LEMMA RunnerUntouched ==
  ASSUME RunnerInductive, UNCHANGED <<runnerVars, shutVars>>
  PROVE  RunnerInductive'
<1> USE DEF runnerVars, shutVars
<1>1. RunnerTypeOK' BY DEF RunnerInductive, RunnerTypeOK
<1>2. (QueuedOnce /\ QueuedWait /\ OneThreadRuns /\ Emptied)'
  BY DEF RunnerInductive, QueuedOnce, QueuedWait, OneThreadRuns, Emptied, Resting
<1> QED BY <1>1, <1>2 DEF RunnerInductive

LEMMA RunnerStep == RunnerInductive /\ [Next]_vars => RunnerInductive'
<1> SUFFICES ASSUME RunnerInductive, [Next]_vars PROVE RunnerInductive' OBVIOUS
<1>1. CASE UNCHANGED vars BY <1>1, RunnerUntouched DEF vars
<1>2. CASE StartRunner \/ StopRunner \/ StopReturns BY <1>2, StartStopPreserves
<1>3. CASE Restart BY <1>3, RestartPreserves
<1>4. CASE \E n \in Notices : SubmitNotice(n) BY <1>4, SubmitPreserves
<1>5. CASE \E c \in Publishers, n \in Notices : RunInline(c, n) BY <1>5, InlinePreserves
<1>6. CASE \E w \in Workers : TakeNotice(w) BY <1>6, TakePreserves
<1>7. CASE \E t \in Threads : FinishNotice(t) \/ Panic(t) BY <1>7, EndPreserves
<1>8. CASE \E t \in Threads : Step(t) BY <1>8, RunnerUntouched DEF Step
<1>9. CASE \E c \in Callers, k \in Watched : Retry(c, k)
  BY <1>9, RunnerUntouched DEF Retry
<1>10. CASE ChangeSettings BY <1>10, RunnerUntouched DEF ChangeSettings
<1> QED BY <1>1, <1>2, <1>3, <1>4, <1>5, <1>6, <1>7, <1>8, <1>9, <1>10 DEF Next

\* The runner's books agree: a task is queued, with one worker, or settled, and
\* a closed queue takes no more (services/notification_runner.go).
THEOREM RunnerInvariance == Spec => []RunnerInductive
BY RunnerStarts, RunnerStep, PTL DEF Spec

\* When Stop returns in time every accepted task has run to its end or its panic: none
\* waits and no worker is at work, nor will one be until the process ends (Stop
\* and worker of services/notification_runner.go).
THEOREM StopEmptiesQueue == Spec => []StopServesAll
<1>1. ASSUME RunnerInductive PROVE StopServesAll
  <2> SUFFICES ASSUME stage = "stopped", ~timedOut
               PROVE  /\ \A n \in Notices : fate[n] # "waiting"
                      /\ \A w \in Workers : running[w] = NoTask
    BY DEF StopServesAll
  <2>1. Resting BY <1>1 DEF RunnerInductive, Emptied
  <2>2. queue = <<>> /\ Len(queue) = 0 BY <2>1 DEF Resting
  <2>3. \A n \in Notices : fate[n] # "waiting" BY <1>1, <2>2 DEF RunnerInductive, QueuedWait
  <2> QED BY <2>1, <2>3 DEF Resting
<1> QED BY <1>1, RunnerInvariance, PTL

-----------------------------------------------------------------------------
(* The runner implements the abstract queue. *)

\* The abstract queue's variables; pending is the queue itself.
Phase == IF stopping THEN "closed" ELSE IF started THEN "open" ELSE "idle"
Fate == [n \in Notices |-> IF fate[n] = "full" THEN "refused" ELSE fate[n]]

\* The abstract fate follows the changes of the concrete one, and hides "full".
LEMMA FateSteps ==
  ASSUME RunnerInductive
  PROVE  /\ \A n \in Notices : fate[n] # "full" => Fate[n] = fate[n]
         /\ \A n \in Notices, f \in Fates \ {"full"} :
              fate' = [fate EXCEPT ![n] = f] => Fate' = [Fate EXCEPT ![n] = f]
         /\ \A n \in Notices :
              fate' = [fate EXCEPT ![n] = "full"] => Fate' = [Fate EXCEPT ![n] = "refused"]
         /\ fate' = fate => Fate' = Fate
<1>1. fate \in [Notices -> Fates] BY DEF RunnerInductive, RunnerTypeOK
<1> QED BY <1>1 DEF Fate

LEMMA RunnerRefinesInit == Init => Runner!Init
<1> SUFFICES ASSUME Init PROVE Runner!Init OBVIOUS
<1>1. Phase = "idle" /\ queue = <<>> /\ Fate = [n \in Notices |-> "new"]
  BY DEF Init, RunnerInit, Phase, Fate
<1> QED BY <1>1, Zenon DEF Runner!Init, Phase, Fate

LEMMA Stutters ==
  ASSUME UNCHANGED <<Phase, queue, Fate>>
  PROVE  UNCHANGED Runner!vars
  BY DEF Runner!vars, Phase, Fate

LEMMA SubmitRefines ==
  ASSUME RunnerInductive, NEW n \in Notices, SubmitNotice(n)
  PROVE  Runner!Accept(n) \/ Runner!Refuse(n)
<1>1. /\ fate[n] = "new" /\ Fate[n] = "new" /\ (stopping \/ started) /\ Phase' = Phase
  BY FateSteps DEF SubmitNotice, Submit, Phase
<1>2. CASE queue' = Append(queue, n) /\ fate' = [fate EXCEPT ![n] = "waiting"]
           /\ ~stopping /\ Len(queue) < QueueSize
  <2>1. Phase = "open" /\ Fate' = [Fate EXCEPT ![n] = "waiting"]
    BY <1>1, <1>2, FateSteps DEF Phase, Fates
  <2> QED BY <1>1, <1>2, <2>1 DEF Runner!Accept, Phase, Fate
<1>3. CASE queue' = queue /\ \/ fate' = [fate EXCEPT ![n] = "refused"] /\ stopping
                             \/ fate' = [fate EXCEPT ![n] = "full"] /\ Len(queue) >= QueueSize
  <2>1. Phase = "closed" \/ Len(queue) >= QueueSize BY <1>3 DEF Phase
  <2>2. Fate' = [Fate EXCEPT ![n] = "refused"] BY <1>3, FateSteps DEF Fates
  <2> QED BY <1>1, <1>3, <2>1, <2>2 DEF Runner!Refuse, Phase, Fate
<1>4. \/ /\ queue' = Append(queue, n) /\ fate' = [fate EXCEPT ![n] = "waiting"]
         /\ ~stopping /\ Len(queue) < QueueSize
      \/ /\ queue' = queue
         /\ \/ fate' = [fate EXCEPT ![n] = "refused"] /\ stopping
            \/ fate' = [fate EXCEPT ![n] = "full"] /\ Len(queue) >= QueueSize
  <2>1. Len(queue) \in Nat BY QueueSteps
  <2>2. CASE Len(queue) < QueueSize BY <2>2 DEF SubmitNotice, Submit
  <2>3. CASE ~(Len(queue) < QueueSize)
    <3>1. Len(queue) >= QueueSize BY <2>1, <2>3
    <3> QED BY <2>3, <3>1 DEF SubmitNotice, Submit
  <2> QED BY <2>2, <2>3
<1> QED BY <1>2, <1>3, <1>4

LEMMA InlineRefines ==
  ASSUME RunnerInductive, NEW c \in Publishers, NEW n \in Notices, RunInline(c, n)
  PROVE  Runner!Inline(n)
<1>1. /\ Fate[n] = "new" /\ Phase = "idle" /\ UNCHANGED <<Phase, queue>>
      /\ fate' = [fate EXCEPT ![n] = "working"]
  BY FateSteps DEF RunInline, SubmitInline, Phase
<1>2. Fate' = [Fate EXCEPT ![n] = "working"] BY <1>1, FateSteps DEF Fates
<1> QED BY <1>1, <1>2 DEF Runner!Inline, Phase, Fate

LEMMA TakeRefines ==
  ASSUME RunnerInductive, NEW w \in Workers, TakeNotice(w)
  PROVE  Runner!Take(1) /\ 1 \in 1 .. Len(queue)
<1>1. /\ queue # <<>> /\ queue' = Tail(queue) /\ Phase' = Phase
      /\ fate' = [fate EXCEPT ![Head(queue)] = "working"]
      /\ Len(queue) \in Nat \ {0} /\ Head(queue) = queue[1] /\ Head(queue) \in Notices
      /\ queue \in Seq(Notices)
  BY QueueSteps DEF TakeNotice, TakeTask, Phase
<1>2. Fate' = [Fate EXCEPT ![Head(queue)] = "working"] BY <1>1, FateSteps DEF Fates
<1>3. queue' = SubSeq(queue, 1 + 1, Len(queue)) BY <1>1, TailIsSubSeq
<1>4. Runner!ToSet(SubSeq(queue, 1, 1)) = {Head(queue)}
  <2>1. \A i \in 1 .. 1 : queue[i] \in Notices BY <1>1
  <2>2. /\ SubSeq(queue, 1, 1) \in Seq(Notices) /\ Len(SubSeq(queue, 1, 1)) = 1
        /\ SubSeq(queue, 1, 1)[1] = queue[1]
    BY <2>1, SubSeqProperties
  <2>3. DOMAIN SubSeq(queue, 1, 1) = {1} BY <2>2
  <2> QED BY <1>1, <2>2, <2>3 DEF Runner!ToSet, ToSet
<1>5. Fate' = [e \in Notices |-> IF e \in Runner!ToSet(SubSeq(queue, 1, 1))
                                   THEN "working" ELSE Fate[e]]
  BY <1>1, <1>2, <1>4 DEF Fate
<1>6. Runner!Take(1) BY <1>1, <1>3, <1>5, Zenon DEF Runner!Take, Phase, Fate
<1> QED BY <1>1, <1>6

LEMMA EndRefines ==
  ASSUME RunnerInductive, NEW t \in Threads, FinishNotice(t) \/ Panic(t)
  PROVE  \E S \in (SUBSET Notices) \ {{}}, outcome \in {"done", "lost"} :
           Runner!Settle(S, outcome)
<1>1. PICK outcome \in {"done", "lost"} : EndTask(t, outcome)
  BY DEF FinishNotice, Panic
<1>2. /\ UNCHANGED <<queue, Phase>> /\ running[t] \in Notices
      /\ fate[running[t]] = "working" /\ fate' = [fate EXCEPT ![running[t]] = outcome]
  BY <1>1 DEF EndTask, Phase, RunnerInductive, RunnerTypeOK, OneThreadRuns
<1>3. /\ Fate[running[t]] = "working"
      /\ Fate' = [Fate EXCEPT ![running[t]] = outcome]
  BY <1>2, FateSteps DEF Fates
<1>4. Fate' = [e \in Notices |-> IF e \in {running[t]} THEN outcome ELSE Fate[e]]
  BY <1>2, <1>3 DEF Fate
<1>5. Runner!Settle({running[t]}, outcome)
  BY <1>2, <1>3, <1>4 DEF Runner!Settle, Phase, Fate
<1>6. {running[t]} \in (SUBSET Notices) \ {{}} BY <1>2
<1> QED BY <1>5, <1>6

LEMMA RestartRefines ==
  ASSUME RunnerInductive, Restart
  PROVE  Runner!Crash
<1>1. /\ Phase' = "idle" /\ queue' = <<>>
      /\ fate' = [n \in Notices |-> IF fate[n] \in {"waiting", "working"} THEN "lost" ELSE fate[n]]
  BY DEF Restart, LoseTasks, Phase
<1>2. Fate' = [n \in Notices |-> IF Fate[n] \in {"waiting", "working"} THEN "lost" ELSE Fate[n]]
  BY <1>1 DEF Fate
<1> QED BY <1>1, <1>2 DEF Runner!Crash, Phase, Fate

LEMMA StartStopRefines ==
  ASSUME RunnerInductive, StartRunner \/ StopRunner \/ StopReturns
  PROVE  Runner!Open \/ Runner!Close \/ UNCHANGED Runner!vars
<1>1. UNCHANGED <<queue, Fate>>
  BY DEF StartRunner, Start, StopRunner, CloseRunner, StopReturns, runnerVars, Fate
<1>2. CASE StartRunner
  <2>1. Phase = "idle" /\ Phase' = "open" BY <1>2 DEF StartRunner, Start, Phase
  <2> QED BY <1>1, <2>1 DEF Runner!Open, Phase, Fate
<1>3. CASE StopRunner
  <2>1. Phase # "closed" /\ Phase' = "closed" BY <1>3 DEF StopRunner, CloseRunner, Phase
  <2> QED BY <1>1, <2>1 DEF Runner!Close, Phase, Fate
<1>4. CASE StopReturns
  <2>1. Phase' = Phase BY <1>4 DEF StopReturns, runnerVars, Phase
  <2> QED BY <1>1, <2>1, Stutters
<1> QED BY <1>2, <1>3, <1>4

LEMMA RunnerRefinesStep ==
  ASSUME RunnerInductive, [Next]_vars
  PROVE  [Runner!Next]_(Runner!vars)
<1>1. CASE UNCHANGED runnerVars
  <2>1. UNCHANGED <<Phase, queue, Fate>> BY <1>1 DEF runnerVars, Phase, Fate
  <2> QED BY <2>1, Stutters
<1>2. CASE StartRunner \/ StopRunner \/ StopReturns
  BY <1>2, StartStopRefines DEF Runner!Next
<1>3. CASE Restart BY <1>3, RestartRefines DEF Runner!Next
<1>4. ASSUME NEW n \in Notices, SubmitNotice(n) PROVE Runner!Next
  BY <1>4, SubmitRefines DEF Runner!Next
<1>5. ASSUME NEW c \in Publishers, NEW n \in Notices, RunInline(c, n) PROVE Runner!Next
  BY <1>5, InlineRefines DEF Runner!Next
<1>6. ASSUME NEW w \in Workers, TakeNotice(w) PROVE Runner!Next
  BY <1>6, TakeRefines DEF Runner!Next
<1>7. ASSUME NEW t \in Threads, FinishNotice(t) \/ Panic(t) PROVE Runner!Next
  BY <1>7, EndRefines DEF Runner!Next
<1> QED BY <1>1, <1>2, <1>3, <1>4, <1>5, <1>6, <1>7
        DEF Next, vars, Step, Retry, ChangeSettings

\* Submit, the workers and Stop are a bounded queue whatever the tasks do: a
\* task is refused only by a closed or a full queue, tasks are taken in the
\* order they were accepted and settled once, and none is accepted after Stop.
THEOREM RunnerImplementsQueue == Spec => ImplementsQueue
<1>1. RunnerInductive /\ [Next]_vars => [Runner!Next]_(Runner!vars)
  BY RunnerRefinesStep
<1> QED BY <1>1, RunnerRefinesInit, RunnerInvariance, PTL
        DEF Spec, ImplementsQueue, Runner!Spec

-----------------------------------------------------------------------------
(* Threads and records: what a step leaves alone. *)

Others(s) == \A t \in Senders \ {s} : sender'[t] = sender[t]

\* The thread is at a place of its work, everything it holds unchanged.
MovesTo(s, p) ==
  /\ Others(s)
  /\ sender'[s].at = p
  /\ sender'[s].key = sender[s].key /\ sender'[s].notice = sender[s].notice
  /\ sender'[s].todo = sender[s].todo /\ sender'[s].seen = sender[s].seen

NonePreserved == \A k \in Keys : Status(k)' = "none" <=> Status(k) = "none"

LEMMA IdleTyped ==
  /\ Idle \in SenderState
  /\ Idle.at = "idle" /\ Idle.key = None /\ Idle.notice = None /\ Idle.todo = {}
  BY DEF Idle, SenderState, Places

LEMMA Moving ==
  ASSUME MessagesTypeOK, NEW s \in Senders, NEW p \in Places,
         sender' = [sender EXCEPT ![s].at = p]
  PROVE  sender' \in [Senders -> SenderState] /\ MovesTo(s, p)
<1>1. /\ sender[s] \in SenderState /\ sender \in [Senders -> SenderState]
  BY DEF MessagesTypeOK, SenderState
<1>2. sender' = [sender EXCEPT ![s] = [sender[s] EXCEPT !.at = p]] BY <1>1
<1>3. [sender[s] EXCEPT !.at = p] \in SenderState BY <1>1 DEF SenderState
<1>4. sender'[s] = [sender[s] EXCEPT !.at = p] BY <1>1, <1>2
<1>5. MovesTo(s, p)
  <2>1. Others(s) BY <1>1, <1>2 DEF Others
  <2>2. /\ sender'[s].at = p
        /\ sender'[s].key = sender[s].key /\ sender'[s].notice = sender[s].notice
        /\ sender'[s].todo = sender[s].todo /\ sender'[s].seen = sender[s].seen
    BY <1>1, <1>4 DEF SenderState
  <2> QED BY <2>1, <2>2 DEF MovesTo
<1> QED BY <1>1, <1>2, <1>3, <1>5

LEMMA Replacing ==
  ASSUME MessagesTypeOK, NEW s \in Senders, NEW new \in SenderState,
         sender' = [sender EXCEPT ![s] = new]
  PROVE  sender' \in [Senders -> SenderState] /\ Others(s) /\ sender'[s] = new
<1>1. sender \in [Senders -> SenderState] BY DEF MessagesTypeOK, SenderState
<1> QED BY <1>1 DEF Others

\* A record that nobody touches, by threads that stay where they are on it.
LEMMA RecordUntouched ==
  ASSUME NEW k \in Keys, RecordKnown(k),
         UNCHANGED <<record[k], attempts[k], delivered[k]>>,
         k \in overlapped => k \in overlapped', k \in unclear => k \in unclear',
         k \notin overlapped' =>
           \A t \in Senders :
             /\ Works(t, k)' <=> Works(t, k)
             /\ Works(t, k) => sender'[t].at = sender[t].at /\ sender'[t].seen = sender[t].seen
  PROVE  RecordKnown(k)'
<1>1. CASE k \in overlapped' BY <1>1 DEF RecordKnown
<1>2. CASE k \notin overlapped'
  <2>1. AloneOn(k)' BY <1>2 DEF RecordKnown, AloneOn
  <2>2. AttemptsCounted(k)' BY <1>2 DEF RecordKnown, AttemptsCounted, Live, Status
  <2>3. k \notin (overlapped \cup unclear)' => DeliveryKnown(k)'
    BY <1>2 DEF RecordKnown, DeliveryKnown, Status
  <2> QED BY <1>2, <2>1, <2>2, <2>3 DEF RecordKnown
<1> QED BY <1>1, <1>2

\* A thread that does not move, while no record comes or goes.
LEMMA ThreadUntouched ==
  ASSUME MessagesTypeOK, NEW t \in Senders, ThreadShape(t), NonePreserved,
         sender'[t] = sender[t],
         sender[t].notice # None => running'[t] = running[t]
  PROVE  ThreadShape(t)'
<1>1. /\ sender[t].key \in Keys \cup {None} /\ sender[t].notice \in Notices \cup {None}
      /\ sender[t].todo \subseteq Recipients
  BY DEF MessagesTypeOK
<1>2. \A n \in Notices, r \in Recipients : <<n, r>> \in Keys BY DEF Keys
<1>3. Idle' = Idle BY DEF Idle
<1>4. sender[t].key # None => Status(sender[t].key)' # "none"
  BY <1>1 DEF ThreadShape, NonePreserved
<1>5. sender[t].notice # None =>
        \A r \in sender[t].todo : Status(<<sender[t].notice, r>>)' = "none"
  BY <1>1, <1>2 DEF ThreadShape, NonePreserved
<1> QED BY <1>3, <1>4, <1>5 DEF ThreadShape, Status

LEMMA NothingAheadKept ==
  ASSUME NothingAhead, NonePreserved,
         \A n \in Notices : fate'[n] \in {"new", "waiting"} => fate[n] \in {"new", "waiting"}
  PROVE  NothingAhead'
<1>1. \A n \in Notices, r \in Recipients : <<n, r>> \in Keys BY DEF Keys
<1> QED BY <1>1 DEF NothingAhead, NonePreserved

-----------------------------------------------------------------------------
(* The console, and the steps of the runner that only it sees. *)

LEMMA QuietPreserves ==
  ASSUME RunnerInductive, MessagesInductive,
         UNCHANGED <<sender, record, attempts, delivered, overlapped, unclear>>,
         \A t \in Threads : sender[t].notice # None => running'[t] = running[t],
         \A n \in Notices : fate'[n] \in {"new", "waiting"} => fate[n] \in {"new", "waiting"},
         MessagesTypeOK'
  PROVE  MessagesInductive'
<1>1. NonePreserved BY DEF NonePreserved, Status
<1>2. ASSUME NEW t \in Senders PROVE ThreadShape(t)'
  BY <1>1, ThreadUntouched DEF MessagesInductive, Threads
<1>3. NothingAhead' BY <1>1, NothingAheadKept DEF MessagesInductive
<1>4. ASSUME NEW k \in Keys PROVE RecordKnown(k)'
  BY RecordUntouched DEF MessagesInductive, Works
<1> QED BY <1>2, <1>3, <1>4 DEF MessagesInductive

LEMMA RunnerStepsQuiet ==
  ASSUME RunnerInductive, MessagesInductive,
         \/ StartRunner \/ StopRunner \/ StopReturns
         \/ \E n \in Notices : SubmitNotice(n)
         \/ \E t \in Threads : FinishNotice(t)
  PROVE  MessagesInductive'
<1>1. UNCHANGED messageVars
  BY DEF StartRunner, StopRunner, StopReturns, SubmitNotice, FinishNotice
<1>2. UNCHANGED <<sender, record, attempts, delivered, overlapped, unclear>>
  BY <1>1 DEF messageVars
<1>3. MessagesTypeOK'
  BY <1>1 DEF messageVars, MessagesTypeOK, MessagesInductive
<1>4. \A t \in Threads : sender[t].notice # None => running'[t] = running[t]
  <2>1. CASE \E t \in Threads : FinishNotice(t)
    <3>1. PICK t \in Threads : FinishNotice(t) BY <2>1
    <3>2. sender[t].notice = None
      BY <3>1, IdleTyped DEF FinishNotice, MessagesInductive, ThreadShape, Threads
    <3>3. running \in [Threads -> Tasks \cup {NoTask}]
      BY DEF RunnerInductive, RunnerTypeOK
    <3> QED BY <3>1, <3>2, <3>3 DEF FinishNotice, EndTask
  <2>2. CASE running' = running BY <2>2
  <2> QED BY <2>1, <2>2 DEF StartRunner, Start, StopRunner, CloseRunner, StopReturns,
             runnerVars, SubmitNotice, Submit
<1>5. \A n \in Notices : fate'[n] \in {"new", "waiting"} => fate[n] \in {"new", "waiting"}
  <2>0. fate \in [Notices -> Fates] BY DEF RunnerInductive, RunnerTypeOK
  <2>1. CASE \E t \in Threads : FinishNotice(t)
    <3>1. PICK t \in Threads : FinishNotice(t) BY <2>1
    <3> QED BY <2>0, <3>1 DEF FinishNotice, EndTask
  <2>2. CASE \E n \in Notices : SubmitNotice(n)
    <3>1. PICK n \in Notices : SubmitNotice(n) BY <2>2
    <3> QED BY <2>0, <3>1 DEF SubmitNotice, Submit
  <2>3. CASE StartRunner \/ StopRunner \/ StopReturns
    BY <2>3 DEF StartRunner, Start, StopRunner, CloseRunner, StopReturns, runnerVars
  <2> QED BY <2>1, <2>2, <2>3
<1> QED BY <1>2, <1>3, <1>4, <1>5, QuietPreserves

\* A record the console deletes is still worked on by whoever has it.
LEMMA DeletePreserves ==
  ASSUME RunnerInductive, MessagesInductive, NEW k \in Keys, DeleteRecord(k),
         UNCHANGED runnerVars
  PROVE  MessagesInductive'
<1>1. /\ UNCHANGED <<sender, attempts, delivered, overlapped, unclear, template,
                     configured, enabled>>
      /\ events' \in 0 .. MaxEvents
      /\ Live(k) /\ record' = [record EXCEPT ![k].status = "deleted"]
      /\ record \in [Keys -> [status : Statuses, retries : 0 .. MaxRetries]]
  BY DEF DeleteRecord, Change, Event, settingVars, MessagesInductive, MessagesTypeOK
<1>2. /\ record' = [record EXCEPT ![k] = [record[k] EXCEPT !.status = "deleted"]]
      /\ [record[k] EXCEPT !.status = "deleted"]
           \in [status : Statuses, retries : 0 .. MaxRetries]
      /\ record'[k].status = "deleted"
      /\ \A j \in Keys \ {k} : record'[j] = record[j]
  BY <1>1 DEF Statuses
<1>3. MessagesTypeOK'
  BY <1>1, <1>2 DEF MessagesInductive, MessagesTypeOK
<1>4. NonePreserved BY <1>1, <1>2 DEF NonePreserved, Status, Live
<1>5. ASSUME NEW t \in Senders PROVE ThreadShape(t)'
  BY <1>1, <1>4, ThreadUntouched DEF MessagesInductive, runnerVars
<1>6. NothingAhead' BY <1>4, NothingAheadKept DEF MessagesInductive, runnerVars
<1>7. ASSUME NEW j \in Keys \ {k} PROVE RecordKnown(j)'
  BY <1>1, <1>2, RecordUntouched DEF MessagesInductive, Works
<1>8. RecordKnown(k)'
  <2>1. RecordKnown(k) BY DEF MessagesInductive
  <2>2. k \notin overlapped => AloneOn(k)' /\ AttemptsCounted(k)'
    BY <1>1, <1>2, <2>1 DEF RecordKnown, AloneOn, Works, AttemptsCounted, Live, Status
  <2>3. k \notin overlapped \cup unclear => DeliveryKnown(k)'
    BY <1>1, <1>2, <2>1 DEF RecordKnown, DeliveryKnown, Works, Live, Status
  <2> QED BY <1>1, <2>2, <2>3 DEF RecordKnown
<1> QED BY <1>3, <1>5, <1>6, <1>7, <1>8 DEF MessagesInductive

LEMMA ConsolePreserves ==
  ASSUME RunnerInductive, MessagesInductive, ChangeSettings
  PROVE  MessagesInductive'
<1>1. UNCHANGED <<running, fate>> /\ UNCHANGED runnerVars BY DEF ChangeSettings, runnerVars
<1>2. CASE \E k \in Keys : DeleteRecord(k) BY <1>1, <1>2, DeletePreserves
<1>3. CASE \/ SaveTemplate \/ DropTemplate \/ SaveConfig \/ DropConfig
           \/ \E r \in Recipients : SaveRecipient(r) \/ DropRecipient(r)
  <2>1. /\ UNCHANGED <<sender, record, attempts, delivered, overlapped, unclear>>
        /\ events' \in 0 .. MaxEvents
    BY <1>3 DEF SaveTemplate, DropTemplate, SaveConfig, DropConfig, SaveRecipient,
                DropRecipient, Change, Event, MessagesInductive, MessagesTypeOK
  <2>2. template' \in BOOLEAN /\ configured' \in BOOLEAN /\ enabled' \subseteq Recipients
    BY <1>3 DEF SaveTemplate, DropTemplate, SaveConfig, DropConfig, SaveRecipient,
                DropRecipient, MessagesInductive, MessagesTypeOK
  <2>3. MessagesTypeOK' BY <2>1, <2>2 DEF MessagesInductive, MessagesTypeOK
  <2> QED BY <1>1, <2>1, <2>3, QuietPreserves
<1> QED BY <1>2, <1>3 DEF ChangeSettings, Console

-----------------------------------------------------------------------------
(* A thread at work on a record. *)

\* A step of one thread that touches one record at most.
LEMMA OneRecordPreserves ==
  ASSUME MessagesInductive, MessagesTypeOK',
         NEW s \in Senders, NEW k \in Keys, Others(s),
         sender[s].key \in {k, None}, sender'[s].key \in {k, None},
         \A j \in Keys \ {k} : UNCHANGED <<record[j], attempts[j], delivered[j]>>,
         overlapped \subseteq overlapped', unclear \subseteq unclear',
         \A t \in Senders : ThreadShape(t)', NothingAhead', RecordKnown(k)'
  PROVE  MessagesInductive'
<1>1. ASSUME NEW j \in Keys PROVE RecordKnown(j)'
  <2>1. CASE j = k BY <2>1
  <2>2. CASE j # k
    <3>1. j # None BY DEF Keys
    <3>2. \A t \in Senders :
            /\ Works(t, j)' <=> Works(t, j)
            /\ Works(t, j) => sender'[t] = sender[t]
      BY <2>2, <3>1 DEF Works, Others
    <3> QED BY <2>2, <3>2, RecordUntouched DEF MessagesInductive
  <2> QED BY <2>1, <2>2
<1> QED BY <1>1 DEF MessagesInductive

\* The other threads, and the notices to come, when no record comes or goes.
LEMMA OthersShape ==
  ASSUME MessagesInductive, NEW s \in Senders, Others(s), NonePreserved, ThreadShape(s)',
         \A t \in Senders \ {s} : sender[t].notice # None => running'[t] = running[t],
         \A n \in Notices : fate'[n] \in {"new", "waiting"} => fate[n] \in {"new", "waiting"}
  PROVE  (\A t \in Senders : ThreadShape(t)') /\ NothingAhead'
<1>1. ASSUME NEW t \in Senders PROVE ThreadShape(t)'
  <2>1. CASE t = s BY <2>1
  <2>2. CASE t # s BY <2>2, ThreadUntouched DEF MessagesInductive, Others
  <2> QED BY <2>1, <2>2
<1>2. NothingAhead' BY NothingAheadKept DEF MessagesInductive
<1> QED BY <1>1, <1>2

LEMMA WorkPreserves ==
  ASSUME MessagesInductive, MessagesTypeOK',
         NEW s \in Senders, NEW k \in Keys, sender[s].key \in {k, None},
         Others(s), sender'[s].key \in {k, None}, NonePreserved,
         UNCHANGED <<running, fate>>,
         \A j \in Keys \ {k} : UNCHANGED <<record[j], attempts[j], delivered[j]>>,
         overlapped \subseteq overlapped', unclear \subseteq unclear',
         ThreadShape(s)', RecordKnown(k)'
  PROVE  MessagesInductive'
<1>1. (\A t \in Senders : ThreadShape(t)') /\ NothingAhead' BY OthersShape
<1> QED BY <1>1, OneRecordPreserves

\* A step of a thread that works on no record.
LEMMA OffRecordPreserves ==
  ASSUME MessagesInductive, MessagesTypeOK', NEW s \in Senders, Others(s),
         sender[s].key = None, sender'[s].key = None,
         UNCHANGED <<record, attempts, delivered, overlapped, unclear>>, ThreadShape(s)',
         \A t \in Senders \ {s} : sender[t].notice # None => running'[t] = running[t],
         \A n \in Notices : fate'[n] \in {"new", "waiting"} => fate[n] \in {"new", "waiting"}
  PROVE  MessagesInductive'
<1>1. NonePreserved BY DEF NonePreserved, Status
<1>2. (\A t \in Senders : ThreadShape(t)') /\ NothingAhead' BY <1>1, OthersShape
<1>3. ASSUME NEW j \in Keys PROVE RecordKnown(j)'
  <2>1. j # None BY DEF Keys
  <2>2. \A t \in Senders :
          /\ Works(t, j)' <=> Works(t, j)
          /\ Works(t, j) => sender'[t] = sender[t]
    BY <2>1 DEF Works, Others
  <2> QED BY <2>2, RecordUntouched DEF MessagesInductive
<1> QED BY <1>2, <1>3 DEF MessagesInductive

LEMMA ShapeMoves ==
  ASSUME MessagesTypeOK, NEW s \in Senders, ThreadShape(s), NonePreserved,
         NEW p \in {"send", "hung", "markSuccess", "markFailed"}, MovesTo(s, p),
         sender[s].key # None, running' = running
  PROVE  ThreadShape(s)'
<1>1. /\ sender[s].key \in Keys /\ sender[s].notice \in Notices \cup {None}
      /\ sender[s].todo \subseteq Recipients
  BY DEF MessagesTypeOK
<1>2. \A n \in Notices, r \in Recipients : <<n, r>> \in Keys BY DEF Keys
<1>3. Status(sender[s].key)' # "none"
  BY <1>1 DEF ThreadShape, NonePreserved, MovesTo
<1>4. sender[s].notice # None =>
        \A r \in sender[s].todo : Status(<<sender[s].notice, r>>)' = "none"
  BY <1>1, <1>2 DEF ThreadShape, NonePreserved, MovesTo
<1> QED BY <1>3, <1>4 DEF ThreadShape, MovesTo, Status

LEMMA ShapeIdle ==
  ASSUME NEW s \in Senders, sender'[s] = Idle
  PROVE  ThreadShape(s)'
<1>1. Idle' = Idle BY DEF Idle
<1> QED BY <1>1, IdleTyped DEF ThreadShape

\* While nobody overlapped on the record, the thread is the only one there.
LEMMA Sole ==
  ASSUME NEW s \in Senders, NEW k \in Keys, RecordKnown(k), k \notin overlapped,
         sender[s].key = k, Others(s)
  PROVE  /\ \A t \in Senders : Works(t, k) <=> t = s
         /\ \A t \in Senders : Works(t, k)' => t = s
         /\ sender'[s].key = k => \A t \in Senders : Works(t, k)' <=> t = s
  BY DEF RecordKnown, AloneOn, Works, Others

\* The outcome of a call to the mail server.
LEMMA SendPreserves ==
  ASSUME RunnerInductive, MessagesInductive, NEW s \in Senders,
         Deliver(s) \/ Rejected(s) \/ AcceptedThenError(s) \/ Hang(s),
         UNCHANGED <<running, fate>>
  PROVE  MessagesInductive'
<1>0. PICK k \in Keys : sender[s].key = k /\ sender[s].at = "send"
  <2>1. sender[s].at = "send" BY DEF Deliver, Rejected, AcceptedThenError, Hang
  <2>2. sender[s].key \in Keys \cup {None} BY DEF MessagesInductive, MessagesTypeOK
  <2>3. sender[s].key # None BY <2>1 DEF MessagesInductive, ThreadShape
  <2> QED BY <2>1, <2>2, <2>3
<1>1. /\ k # None
      /\ attempts \in [Keys -> 0 .. (MaxRetries + 2)] /\ delivered \in [Keys -> 0 .. 2]
      /\ MessagesTypeOK /\ ThreadShape(s) /\ RecordKnown(k)
  BY <1>0 DEF MessagesInductive, MessagesTypeOK, Keys
<1>2. PICK p \in {"hung", "markSuccess", "markFailed"} :
        /\ sender' = [sender EXCEPT ![s].at = p]
        /\ UNCHANGED <<events, settingVars, record, overlapped>>
        /\ attempts' = [attempts EXCEPT ![k] = Seen(attempts[k], MaxRetries + 2)]
        /\ \/ p = "markSuccess" /\ delivered' = [delivered EXCEPT ![k] = Seen(delivered[k], 2)]
                                /\ unclear' = unclear
           \/ p # "markSuccess" /\ delivered' = [delivered EXCEPT ![k] = Seen(delivered[k], 2)]
                                /\ unclear' = unclear \cup {k}
           \/ p # "markSuccess" /\ delivered' = delivered /\ unclear' = unclear
  BY <1>0, <1>1 DEF Deliver, Rejected, AcceptedThenError, Hang
<1>3. sender' \in [Senders -> SenderState] /\ MovesTo(s, p)
  BY <1>1, <1>2, Moving DEF Places
<1>4. /\ attempts' \in [Keys -> 0 .. (MaxRetries + 2)] /\ delivered' \in [Keys -> 0 .. 2]
      /\ attempts[k] < MaxRetries + 2 => attempts'[k] = attempts[k] + 1
      /\ delivered[k] < 2 /\ delivered' # delivered => delivered'[k] = delivered[k] + 1
      /\ \A j \in Keys \ {k} : UNCHANGED <<record[j], attempts[j], delivered[j]>>
      /\ unclear \subseteq unclear' /\ unclear' \subseteq Keys
  <2>1. unclear \subseteq Keys BY <1>1 DEF MessagesTypeOK
  <2>2. attempts[k] \in 0 .. (MaxRetries + 2) /\ delivered[k] \in 0 .. 2 BY <1>1
  <2>3. /\ Seen(attempts[k], MaxRetries + 2) \in 0 .. (MaxRetries + 2)
        /\ attempts[k] < MaxRetries + 2 => Seen(attempts[k], MaxRetries + 2) = attempts[k] + 1
        /\ Seen(delivered[k], 2) \in 0 .. 2
        /\ delivered[k] < 2 => Seen(delivered[k], 2) = delivered[k] + 1
    BY <2>2 DEF Seen
  <2> QED BY <1>1, <1>2, <2>1, <2>3
<1>5. MessagesTypeOK'
  BY <1>1, <1>2, <1>3, <1>4 DEF MessagesTypeOK, SenderState, settingVars
<1>6. NonePreserved BY <1>2 DEF NonePreserved, Status
<1>7. ThreadShape(s)' BY <1>0, <1>1, <1>3, <1>6, ShapeMoves
<1>8. sender'[s].key = k /\ Others(s) /\ sender'[s].at = p BY <1>0, <1>3 DEF MovesTo
<1>9. RecordKnown(k)'
  <2>1. CASE k \in overlapped BY <1>2, <2>1 DEF RecordKnown
  <2>2. CASE k \notin overlapped
    <3>1. /\ \A t \in Senders : Works(t, k) <=> t = s
          /\ \A t \in Senders : Works(t, k)' <=> t = s
      BY <1>1, <1>8, <2>2, <1>0, Sole
    <3>2. AloneOn(k)' BY <3>1 DEF AloneOn
    <3>3. AttemptsCounted(k)'
      <4>1. /\ attempts[k] <= MaxRetries
            /\ Live(k) => attempts[k] <= record[k].retries
            /\ Status(k) # "none" /\ attempts[k] \in Nat
        BY <1>0, <1>1, <2>2, <3>1 DEF RecordKnown, AttemptsCounted, ThreadShape, Works
      <4>2. attempts'[k] = attempts[k] + 1 BY <1>4, <4>1
      <4>3. record'[k] = record[k] /\ (Live(k)' <=> Live(k)) BY <1>2 DEF Live
      <4>4. record[k].retries \in Nat BY <1>1 DEF MessagesTypeOK
      <4> QED BY <1>8, <3>1, <4>1, <4>2, <4>3, <4>4 DEF AttemptsCounted, Status
    <3>4. ASSUME k \notin (overlapped \cup unclear)' PROVE DeliveryKnown(k)'
      <4>1. k \notin overlapped \cup unclear BY <1>2, <1>4, <3>4
      <4>2. delivered[k] = 0 /\ Status(k) \notin {"none", "success"}
        BY <1>0, <1>1, <2>2, <3>1, <4>1 DEF RecordKnown, DeliveryKnown, ThreadShape, Works
      <4>3. delivered'[k] = IF p = "markSuccess" THEN 1 ELSE 0
        BY <1>1, <1>2, <3>4, <4>2 DEF Seen
      <4> QED BY <1>2, <1>8, <3>1, <4>2, <4>3 DEF DeliveryKnown, Status
    <3> QED BY <1>2, <3>2, <3>3, <3>4 DEF RecordKnown
  <2> QED BY <2>1, <2>2
<1> QED BY <1>0, <1>2, <1>4, <1>5, <1>6, <1>7, <1>8, <1>9, WorkPreserves

LEMMA AfterTyped ==
  ASSUME MessagesTypeOK, NEW s \in Senders, ThreadShape(s)
  PROVE  /\ After(s) \in SenderState /\ After(s).key = None
         /\ After(s).at \in {"idle", "next"}
         /\ After(s).at = "idle" => After(s) = Idle
         /\ After(s).notice = sender[s].notice
         /\ After(s).at = "next" => /\ After(s).todo = sender[s].todo
                                    /\ sender[s].notice # None
<1>1. CASE sender[s].notice = None BY <1>1, IdleTyped DEF After
<1>2. CASE sender[s].notice # None
  <2>1. sender[s] \in SenderState BY DEF MessagesTypeOK, SenderState
  <2>2. After(s) = [sender[s] EXCEPT !.at = "next", !.key = None] BY <1>2 DEF After
  <2>3. After(s) \in SenderState BY <2>1, <2>2 DEF SenderState, Places
  <2>4. /\ After(s).at = "next" /\ After(s).key = None
        /\ After(s).notice = sender[s].notice /\ After(s).todo = sender[s].todo
    BY <2>1, <2>2 DEF SenderState
  <2> QED BY <1>2, <2>3, <2>4
<1> QED BY <1>1, <1>2

\* A thread that has just left its record.
LEMMA ShapeAfter ==
  ASSUME MessagesTypeOK, NEW s \in Senders, ThreadShape(s), NonePreserved,
         running'[s] = running[s], sender'[s] = After(s)
  PROVE  ThreadShape(s)'
<1>1. /\ sender[s].notice \in Notices \cup {None} /\ sender[s].todo \subseteq Recipients
  BY DEF MessagesTypeOK
<1>2. \A n \in Notices, r \in Recipients : <<n, r>> \in Keys BY DEF Keys
<1>3. /\ sender'[s].key = None /\ sender'[s].at \in {"idle", "next"}
      /\ sender'[s].at = "idle" => sender'[s] = Idle
      /\ sender'[s].notice = sender[s].notice
      /\ sender'[s].at = "next" => /\ sender'[s].todo = sender[s].todo
                                   /\ sender[s].notice # None
  BY AfterTyped
<1>4. CASE sender'[s].at = "idle" BY <1>3, <1>4, ShapeIdle
<1>5. CASE sender'[s].at = "next"
  <2>1. \A r \in sender'[s].todo : record'[<<sender'[s].notice, r>>].status = "none"
    BY <1>1, <1>2, <1>3, <1>5 DEF ThreadShape, NonePreserved, Status
  <2> QED BY <1>3, <1>5, <2>1 DEF ThreadShape, Status
<1> QED BY <1>3, <1>4, <1>5

\* What remains of a record once its only thread has left it.
LEMMA LeavesRecord ==
  ASSUME MessagesTypeOK, NEW s \in Senders, NEW k \in Keys, RecordKnown(k),
         sender[s].key = k, sender'[s].key = None, Others(s),
         UNCHANGED <<attempts[k], delivered[k]>>,
         overlapped' = overlapped, unclear \subseteq unclear',
         Status(k)' = "none" <=> Status(k) = "none",
         k \notin overlapped => (Live(k)' => Live(k)) /\ record'[k].retries = record[k].retries,
         k \notin overlapped /\ k \notin unclear' =>
           /\ Status(k)' = "success" => sender[s].at = "markSuccess"
           /\ Status(k)' \in {"pending", "failed"} => sender[s].at # "markSuccess"
  PROVE  RecordKnown(k)'
<1>1. CASE k \in overlapped BY <1>1 DEF RecordKnown
<1>2. CASE k \notin overlapped
  <2>1. k # None BY DEF Keys
  <2>2. /\ \A t \in Senders : Works(t, k) <=> t = s
        /\ \A t \in Senders : ~Works(t, k)'
    BY <1>2, <2>1, Sole DEF Works
  <2>3. AloneOn(k)' BY <2>2 DEF AloneOn
  <2>4. AttemptsCounted(k)'
    BY <1>2, <2>2 DEF RecordKnown, AttemptsCounted
  <2>5. ASSUME k \notin (overlapped \cup unclear)' PROVE DeliveryKnown(k)'
    <3>1. DeliveryKnown(k) BY <2>5 DEF RecordKnown
    <3>2. /\ delivered[k] = IF sender[s].at = "markSuccess" THEN 1 ELSE 0
          /\ delivered[k] <= 1 /\ (Status(k) = "none" => delivered[k] = 0)
      BY <2>2, <3>1 DEF DeliveryKnown
    <3> QED BY <1>2, <2>2, <2>5, <3>2 DEF DeliveryKnown
  <2> QED BY <2>3, <2>4, <2>5 DEF RecordKnown
<1> QED BY <1>1, <1>2

\* The record a thread works on.
LEMMA WorkedOn ==
  ASSUME MessagesInductive, NEW s \in Senders, sender[s].at \notin {"idle", "next"}
  PROVE  \E k \in Keys : sender[s].key = k
<1>1. sender[s].key \in Keys \cup {None} BY DEF MessagesInductive, MessagesTypeOK
<1>2. sender[s].key # None BY DEF MessagesInductive, ThreadShape
<1> QED BY <1>1, <1>2

LEMMA MarkPreserves ==
  ASSUME RunnerInductive, MessagesInductive, NEW s \in Senders, Mark(s),
         UNCHANGED <<running, fate>>
  PROVE  MessagesInductive'
<1>0. /\ sender[s].at \in {"markSuccess", "markFailed"} /\ sender' = [sender EXCEPT ![s] = After(s)]
      /\ UNCHANGED <<events, template, configured, enabled, attempts, delivered,
                     overlapped, unclear>>
      /\ MessagesTypeOK /\ ThreadShape(s)
  BY DEF Mark, settingVars, MessagesInductive
<1>1. PICK k \in Keys : sender[s].key = k BY <1>0, WorkedOn
<1>2. /\ record \in [Keys -> [status : Statuses, retries : 0 .. MaxRetries]]
      /\ RecordKnown(k)
  BY DEF MessagesInductive, MessagesTypeOK
<1>3. record' = IF Live(k) THEN [record EXCEPT ![k] = [record[k] EXCEPT !.status = Outcome(s)]]
                           ELSE record
  BY <1>1, <1>2 DEF Mark
<1>4. Outcome(s) \in {"success", "failed"}
      /\ (Outcome(s) = "success" <=> sender[s].at = "markSuccess")
  BY <1>0 DEF Outcome
<1>5. /\ record' \in [Keys -> [status : Statuses, retries : 0 .. MaxRetries]]
      /\ \A j \in Keys \ {k} : record'[j] = record[j]
      /\ record'[k].retries = record[k].retries
      /\ record'[k].status = IF Live(k) THEN Outcome(s) ELSE record[k].status
  <2>1. [record[k] EXCEPT !.status = Outcome(s)]
          \in [status : Statuses, retries : 0 .. MaxRetries]
    BY <1>2, <1>4 DEF Statuses
  <2>2. CASE Live(k) BY <1>2, <1>3, <1>4, <2>1, <2>2
  <2>3. CASE ~Live(k) BY <1>2, <1>3, <2>3
  <2> QED BY <2>2, <2>3
<1>6. /\ sender' \in [Senders -> SenderState] /\ Others(s) /\ sender'[s] = After(s)
      /\ sender'[s].key = None
  BY <1>0, AfterTyped, Replacing
<1>7. MessagesTypeOK' BY <1>0, <1>5, <1>6 DEF MessagesTypeOK, SenderState
<1>8. NonePreserved BY <1>2, <1>4, <1>5 DEF NonePreserved, Status, Live
<1>9. ThreadShape(s)' BY <1>0, <1>6, <1>8, ShapeAfter
<1>10. RecordKnown(k)'
  <2>1. Status(k)' = "none" <=> Status(k) = "none" BY <1>8 DEF NonePreserved
  <2>2. Live(k)' => Live(k) BY <1>5 DEF Live
  <2>3. ASSUME k \notin overlapped, k \notin unclear
        PROVE  /\ Status(k)' = "success" => sender[s].at = "markSuccess"
               /\ Status(k)' \in {"pending", "failed"} => sender[s].at # "markSuccess"
    <3>1. Status(k) # "success" BY <1>1, <1>2, <2>3 DEF RecordKnown, DeliveryKnown, Works
    <3>2. CASE Live(k) BY <1>4, <1>5, <3>2 DEF Status
    <3>3. CASE ~Live(k) BY <1>5, <3>3 DEF Status, Live
    <3> QED BY <3>2, <3>3
  <2> QED BY <1>0, <1>1, <1>2, <1>5, <1>6, <2>1, <2>2, <2>3, LeavesRecord
<1> QED BY <1>0, <1>1, <1>5, <1>6, <1>7, <1>8, <1>9, <1>10, WorkPreserves

\* A thread leaves its record unwritten. If the outcome of a delivery is lost
\* with it, the record is unclear from then on.
LEMMA AbandonPreserves ==
  ASSUME MessagesInductive, MessagesTypeOK', NEW s \in Senders, NEW k \in Keys,
         sender[s].key = k, Others(s), sender'[s].key = None, ThreadShape(s)',
         UNCHANGED <<record, attempts, delivered, overlapped>>, unclear \subseteq unclear',
         sender[s].at = "markSuccess" => k \in unclear',
         \A t \in Senders \ {s} : sender[t].notice # None => running'[t] = running[t],
         \A n \in Notices : fate'[n] \in {"new", "waiting"} => fate[n] \in {"new", "waiting"}
  PROVE  MessagesInductive'
<1>1. NonePreserved BY DEF NonePreserved, Status
<1>2. (\A t \in Senders : ThreadShape(t)') /\ NothingAhead' BY <1>1, OthersShape
<1>3. MessagesTypeOK /\ RecordKnown(k) BY DEF MessagesInductive
<1>4. /\ Status(k)' = "none" <=> Status(k) = "none" 
      /\ Live(k)' => Live(k) /\ record'[k].retries = record[k].retries
  BY DEF Status, Live
<1>5. ASSUME k \notin overlapped, k \notin unclear'
      PROVE  /\ Status(k)' = "success" => sender[s].at = "markSuccess"
             /\ Status(k)' \in {"pending", "failed"} => sender[s].at # "markSuccess"
  <2>1. Status(k) # "success" BY <1>3, <1>5 DEF RecordKnown, DeliveryKnown, Works
  <2> QED BY <1>5, <2>1 DEF Status
<1>6. RecordKnown(k)' BY <1>3, <1>4, <1>5, LeavesRecord
<1> QED BY <1>2, <1>6, OneRecordPreserves

LEMMA FailsPreserves ==
  ASSUME RunnerInductive, MessagesInductive, NEW s \in Senders,
         MarkFails(s) \/ BumpFails(s), UNCHANGED <<running, fate>>
  PROVE  MessagesInductive'
<1>0. /\ sender[s].at \in {"markSuccess", "markFailed", "bump"}
      /\ sender' = [sender EXCEPT ![s] = After(s)] \/ sender' = [sender EXCEPT ![s] = Idle]
      /\ UNCHANGED <<template, configured, enabled, record, attempts, delivered, overlapped>>
      /\ unclear' = unclear \cup {sender[s].key} \/ (unclear' = unclear /\ sender[s].at = "bump")
      /\ MessagesTypeOK /\ ThreadShape(s) /\ events' \in 0 .. MaxEvents
  BY DEF MarkFails, BumpFails, settingVars, recordVars, Event, MessagesInductive,
         MessagesTypeOK
<1>1. PICK k \in Keys : sender[s].key = k BY <1>0, WorkedOn
<1>2. /\ sender' \in [Senders -> SenderState] /\ Others(s) /\ sender'[s].key = None
      /\ sender'[s] = After(s) \/ sender'[s] = Idle
  <2>1. CASE sender' = [sender EXCEPT ![s] = After(s)]
    BY <1>0, <2>1, AfterTyped, Replacing
  <2>2. CASE sender' = [sender EXCEPT ![s] = Idle]
    BY <1>0, <2>2, IdleTyped, Replacing
  <2> QED BY <1>0, <2>1, <2>2
<1>3. unclear \subseteq unclear' /\ unclear' \subseteq Keys
  BY <1>0, <1>1 DEF MessagesTypeOK
<1>4. MessagesTypeOK' BY <1>0, <1>2, <1>3 DEF MessagesTypeOK, SenderState
<1>5. NonePreserved BY <1>0 DEF NonePreserved, Status
<1>6. ThreadShape(s)' BY <1>0, <1>2, <1>5, ShapeAfter, ShapeIdle
<1> QED BY <1>0, <1>1, <1>2, <1>3, <1>4, <1>6, AbandonPreserves

LEMMA BumpPreserves ==
  ASSUME RunnerInductive, MessagesInductive, NEW s \in Senders, Bump(s),
         UNCHANGED <<running, fate>>
  PROVE  MessagesInductive'
<1>0. /\ sender[s].at = "bump" /\ sender[s].seen < MaxRetries
      /\ UNCHANGED <<events, template, configured, enabled, attempts, delivered,
                     overlapped, unclear>>
      /\ MessagesTypeOK /\ ThreadShape(s)
  BY DEF Bump, settingVars, MessagesInductive, ThreadShape
<1>1. PICK k \in Keys : sender[s].key = k BY <1>0, WorkedOn
<1>2. /\ record \in [Keys -> [status : Statuses, retries : 0 .. MaxRetries]]
      /\ RecordKnown(k) /\ sender[s].seen \in 0 .. MaxRetries /\ k # None
      /\ attempts[k] \in Nat
  BY DEF MessagesInductive, MessagesTypeOK, Keys
<1>3. PICK p \in {"send", "markFailed"} : sender' = [sender EXCEPT ![s].at = p]
  BY DEF Bump
<1>4. sender' \in [Senders -> SenderState] /\ MovesTo(s, p)
  BY <1>0, <1>3, Moving DEF Places
<1>5. record' = IF Live(k) THEN [record EXCEPT ![k] = [status |-> "pending", retries |-> sender[s].seen + 1]]
                           ELSE record
  BY <1>1 DEF Bump, Counted
<1>6. /\ record' \in [Keys -> [status : Statuses, retries : 0 .. MaxRetries]]
      /\ \A j \in Keys \ {k} : record'[j] = record[j]
      /\ Live(k) => record'[k].status = "pending" /\ record'[k].retries = sender[s].seen + 1
      /\ ~Live(k) => record'[k] = record[k]
  <2>1. [status |-> "pending", retries |-> sender[s].seen + 1]
          \in [status : Statuses, retries : 0 .. MaxRetries]
    BY <1>0, <1>2 DEF Statuses
  <2> QED BY <1>2, <1>5, <2>1
<1>7. MessagesTypeOK' BY <1>0, <1>4, <1>6 DEF MessagesTypeOK, SenderState
<1>8. NonePreserved BY <1>6 DEF NonePreserved, Status, Live
<1>9. ThreadShape(s)' BY <1>0, <1>1, <1>2, <1>4, <1>8, ShapeMoves
<1>10. sender'[s].key = k /\ Others(s) /\ sender'[s].at = p BY <1>1, <1>4 DEF MovesTo
<1>11. RecordKnown(k)'
  <2>1. CASE k \in overlapped BY <1>0, <2>1 DEF RecordKnown
  <2>2. CASE k \notin overlapped
    <3>1. /\ \A t \in Senders : Works(t, k) <=> t = s
          /\ \A t \in Senders : Works(t, k)' <=> t = s
      BY <1>1, <1>2, <1>10, <2>2, Sole
    <3>2. AloneOn(k)' BY <3>1 DEF AloneOn
    <3>3. AttemptsCounted(k)'
      <4>1. /\ attempts[k] <= 1 + sender[s].seen
            /\ Status(k) # "none"
        BY <1>0, <1>1, <1>2, <2>2, <3>1 DEF RecordKnown, AttemptsCounted, ThreadShape
      <4>2. Live(k)' <=> Live(k) BY <1>6 DEF Live
      <4>3. Status(k)' # "none" BY <1>8, <4>1 DEF NonePreserved
      <4>4. attempts[k] <= MaxRetries BY <1>0, <1>2, <4>1
      <4>5. Live(k)' => attempts[k] <= record'[k].retries BY <1>2, <1>6, <4>1, <4>2
      <4>6. Live(k)' => attempts[k] <= 1 + record'[k].retries
        BY <1>0, <1>2, <1>6, <4>2, <4>5
      <4> QED BY <1>0, <1>2, <1>10, <3>1, <4>3, <4>4, <4>5, <4>6 DEF AttemptsCounted
    <3>4. ASSUME k \notin overlapped \cup unclear PROVE DeliveryKnown(k)'
      <4>1. delivered[k] = 0 /\ Status(k) \notin {"none", "success"}
        BY <1>0, <1>1, <1>2, <3>1, <3>4 DEF RecordKnown, DeliveryKnown, ThreadShape
      <4>2. Status(k)' \notin {"none", "success"} BY <1>6, <4>1 DEF Status
      <4> QED BY <1>0, <1>10, <3>1, <4>1, <4>2 DEF DeliveryKnown
    <3> QED BY <1>0, <3>2, <3>3, <3>4 DEF RecordKnown
  <2> QED BY <2>1, <2>2
<1> QED BY <1>0, <1>1, <1>6, <1>7, <1>8, <1>9, <1>10, <1>11, WorkPreserves

-----------------------------------------------------------------------------
(* Notices: their begin, the next recipient, their end. *)

LEMMA PanicPreserves ==
  ASSUME RunnerInductive, MessagesInductive, NEW s \in Threads, Panic(s)
  PROVE  MessagesInductive'
<1>0. /\ s \in Senders /\ sender' = [sender EXCEPT ![s] = Idle]
      /\ UNCHANGED <<template, configured, enabled, record, attempts, delivered, overlapped>>
      /\ unclear' = IF sender[s].key # None THEN unclear \cup {sender[s].key} ELSE unclear
      /\ MessagesTypeOK /\ events' \in 0 .. MaxEvents
      /\ running[s] # NoTask /\ running' = [running EXCEPT ![s] = NoTask]
      /\ fate' = [fate EXCEPT ![running[s]] = "lost"]
  BY DEF Panic, EndTask, settingVars, Event, MessagesInductive, MessagesTypeOK, Threads
<1>1. /\ sender' \in [Senders -> SenderState] /\ Others(s) /\ sender'[s] = Idle
      /\ sender'[s].key = None
  BY <1>0, IdleTyped, Replacing
<1>2. /\ running \in [Threads -> Tasks \cup {NoTask}] /\ fate \in [Notices -> Fates]
  BY DEF RunnerInductive, RunnerTypeOK
<1>3. /\ \A t \in Senders \ {s} : running'[t] = running[t]
      /\ \A n \in Notices : fate'[n] \in {"new", "waiting"} => fate[n] \in {"new", "waiting"}
  BY <1>0, <1>2 DEF Threads
<1>4. ThreadShape(s)' BY <1>0, <1>1, ShapeIdle
<1>5. sender[s].key \in Keys \cup {None} /\ unclear \subseteq Keys
  BY <1>0 DEF MessagesTypeOK
<1>6. MessagesTypeOK' BY <1>0, <1>1, <1>5 DEF MessagesTypeOK, SenderState
<1>7. CASE sender[s].key = None
  <2>1. UNCHANGED <<record, attempts, delivered, overlapped, unclear>> BY <1>0, <1>7
  <2> QED BY <1>0, <1>1, <1>3, <1>4, <1>6, <1>7, <2>1, OffRecordPreserves
<1>8. CASE sender[s].key # None
  <2>1. PICK k \in Keys : sender[s].key = k BY <1>5, <1>8
  <2>2. unclear \subseteq unclear' /\ k \in unclear' BY <1>0, <1>8, <2>1
  <2> QED BY <1>0, <1>1, <1>3, <1>4, <1>6, <2>1, <2>2, AbandonPreserves
<1> QED BY <1>7, <1>8

\* EndNotice, and a recipient whose record could not be created.
LEMMA SkipPreserves ==
  ASSUME RunnerInductive, MessagesInductive, NEW s \in Senders,
         EndNotice(s) \/ \E r \in Recipients : CreateFails(s, r),
         UNCHANGED <<running, fate>>
  PROVE  MessagesInductive'
<1>0. /\ sender[s].at = "next" /\ MessagesTypeOK /\ ThreadShape(s)
      /\ UNCHANGED <<template, configured, enabled, record, attempts, delivered,
                     overlapped, unclear>>
      /\ events' \in 0 .. MaxEvents
  BY DEF EndNotice, CreateFails, Event, settingVars, recordVars, MessagesInductive,
         MessagesTypeOK
<1>1. sender[s] \in SenderState /\ sender[s].key = None
  BY <1>0 DEF MessagesTypeOK, SenderState, ThreadShape
<1>2. PICK new \in SenderState :
        /\ sender' = [sender EXCEPT ![s] = new]
        /\ \/ new = Idle
           \/ /\ new.at = "next" /\ new.key = None /\ new.notice = sender[s].notice
              /\ new.todo \subseteq sender[s].todo
  <2>1. CASE EndNotice(s) BY <2>1, IdleTyped DEF EndNotice
  <2>2. CASE \E r \in Recipients : CreateFails(s, r)
    <3>1. PICK r \in Recipients : sender' = [sender EXCEPT ![s].todo = @ \ {r}]
      BY <2>2 DEF CreateFails
    <3> DEFINE new == [sender[s] EXCEPT !.todo = @ \ {r}]
    <3>2. sender' = [sender EXCEPT ![s] = new] BY <1>0, <3>1 DEF MessagesTypeOK
    <3>3. /\ new \in SenderState /\ new.at = "next" /\ new.key = None
          /\ new.notice = sender[s].notice /\ new.todo \subseteq sender[s].todo
      BY <1>0, <1>1 DEF SenderState
    <3> QED BY <3>2, <3>3
  <2> QED BY <2>1, <2>2
<1>3. /\ sender' \in [Senders -> SenderState] /\ Others(s) /\ sender'[s] = new
      /\ sender'[s].key = None
  BY <1>0, <1>2, IdleTyped, Replacing
<1>4. MessagesTypeOK' BY <1>0, <1>3 DEF MessagesTypeOK, SenderState
<1>5. ThreadShape(s)'
  <2>1. CASE new = Idle BY <1>3, <2>1, ShapeIdle
  <2>2. CASE new # Idle BY <1>0, <1>2, <1>3, <2>2 DEF ThreadShape, Status
  <2> QED BY <2>1, <2>2
<1> QED BY <1>0, <1>1, <1>3, <1>4, <1>5, OffRecordPreserves

\* The one thread that runs a notice's task creates its records.
LEMMA CreatePreserves ==
  ASSUME RunnerInductive, MessagesInductive, NEW s \in Senders, NEW r \in Recipients,
         CreateRecord(s, r), UNCHANGED <<running, fate>>
  PROVE  MessagesInductive'
<1>0. /\ sender[s].at = "next" /\ r \in sender[s].todo /\ sender[s].key = None
      /\ sender[s].notice # None /\ running[s] = sender[s].notice
      /\ UNCHANGED <<events, template, configured, enabled, attempts, delivered,
                     overlapped, unclear>>
      /\ MessagesTypeOK /\ ThreadShape(s)
  BY DEF CreateRecord, settingVars, MessagesInductive, ThreadShape
<1>1. PICK n \in Notices : sender[s].notice = n
  BY <1>0 DEF MessagesTypeOK
<1>2. PICK k \in Keys : k = <<n, r>> BY DEF Keys
<1>3. /\ record \in [Keys -> [status : Statuses, retries : 0 .. MaxRetries]]
      /\ sender[s] \in SenderState /\ RecordKnown(k) /\ k # None
  BY DEF MessagesInductive, MessagesTypeOK, SenderState, Keys
<1>4. /\ record' = [record EXCEPT ![k] = NewRecord]
      /\ NewRecord \in [status : Statuses, retries : 0 .. MaxRetries]
      /\ NewRecord.status = "pending" /\ NewRecord.retries = 0
  BY <1>1, <1>2 DEF CreateRecord, NewRecord, Statuses
<1>5. /\ record' \in [Keys -> [status : Statuses, retries : 0 .. MaxRetries]]
      /\ \A j \in Keys \ {k} : record'[j] = record[j]
      /\ record'[k] = NewRecord
  BY <1>3, <1>4
<1>6. PICK p \in {"send", "markFailed"} :
        sender' = [sender EXCEPT ![s].at = p, ![s].key = k, ![s].todo = @ \ {r}]
  BY <1>1, <1>2 DEF CreateRecord
<1> DEFINE new == [sender[s] EXCEPT !.at = p, !.key = k, !.todo = @ \ {r}]
<1>7. /\ new \in SenderState /\ new.at = p /\ new.key = k
      /\ new.notice = n /\ new.todo = sender[s].todo \ {r}
  BY <1>1, <1>3 DEF SenderState, Places
<1>8. sender' = [sender EXCEPT ![s] = new]
  BY <1>0, <1>6 DEF MessagesTypeOK
<1> HIDE DEF new
<1>9. /\ sender' \in [Senders -> SenderState] /\ Others(s) /\ sender'[s] = new
  BY <1>0, <1>7, <1>8, Replacing
<1>10. MessagesTypeOK' BY <1>0, <1>5, <1>9 DEF MessagesTypeOK, SenderState
<1>11. /\ \A t \in Senders \ {s} : sender[t].notice # n
       /\ fate[n] = "working"
  <2>1. n # NoTask /\ running[s] = n BY <1>0, <1>1
  <2>2. /\ fate[n] = "working" /\ \A t \in Senders : running[t] = n => t = s
    BY <2>1 DEF RunnerInductive, OneThreadRuns, Threads
  <2> QED BY <1>1, <2>2 DEF MessagesInductive, ThreadShape
<1>12. Status(k) = "none" BY <1>0, <1>1, <1>2 DEF ThreadShape
<1>13. ASSUME NEW t \in Senders PROVE ThreadShape(t)'
  <2>1. CASE t = s
    <3>1. record'[k].status # "none" BY <1>4, <1>5
    <3>2. \A q \in sender[s].todo \ {r} : record'[<<n, q>>].status = "none"
      <4> SUFFICES ASSUME NEW q \in sender[s].todo \ {r}
                   PROVE  record'[<<n, q>>].status = "none"
        OBVIOUS
      <4>1. q \in Recipients /\ <<n, q>> # k BY <1>0, <1>2 DEF MessagesTypeOK
      <4>2. <<n, q>> \in Keys /\ record[<<n, q>>].status = "none"
        BY <1>0, <1>1, <4>1 DEF Keys, ThreadShape, Status
      <4> QED BY <1>5, <4>1, <4>2
    <3> QED BY <1>0, <1>1, <1>3, <1>7, <1>9, <2>1, <3>1, <3>2 DEF ThreadShape, Status
  <2>2. CASE t # s
    <3>1. sender'[t] = sender[t] /\ ThreadShape(t) BY <1>9, <2>2 DEF Others, MessagesInductive
    <3>2. /\ sender[t].key \in Keys \cup {None} /\ sender[t].notice \in Notices \cup {None}
          /\ sender[t].todo \subseteq Recipients
      BY <1>0 DEF MessagesTypeOK
    <3>3. sender[t].key # None => record'[sender[t].key].status # "none"
      BY <1>4, <1>5, <3>1, <3>2 DEF ThreadShape, Status
    <3>4. ASSUME sender[t].notice # None, NEW q \in sender[t].todo
          PROVE  record'[<<sender[t].notice, q>>].status = "none"
      <4>1. <<sender[t].notice, q>> \in Keys \ {k}
        BY <1>2, <1>11, <2>2, <3>2, <3>4 DEF Keys
      <4> QED BY <1>5, <3>1, <3>4, <4>1 DEF ThreadShape, Status
    <3>5. Idle' = Idle BY DEF Idle
    <3> QED BY <3>1, <3>3, <3>4, <3>5 DEF ThreadShape, Status
  <2> QED BY <2>1, <2>2
<1>14. NothingAhead'
  <2> SUFFICES ASSUME NEW m \in Notices, fate[m] \in {"new", "waiting"}, NEW q \in Recipients
               PROVE  record'[<<m, q>>].status = "none"
    BY DEF NothingAhead, Status
  <2>1. <<m, q>> \in Keys \ {k} BY <1>2, <1>11 DEF Keys
  <2>2. Status(<<m, q>>) = "none" BY DEF MessagesInductive, NothingAhead
  <2> QED BY <1>5, <2>1, <2>2 DEF Status
<1>15. RecordKnown(k)'
  <2>1. \A t \in Senders : ~Works(t, k)
    BY <1>3, <1>12 DEF MessagesInductive, ThreadShape, Works
  <2>2. \A t \in Senders : Works(t, k)' <=> t = s
    BY <1>7, <1>9, <2>1 DEF Works, Others
  <2>3. /\ record'[k].status = "pending" /\ record'[k].retries = 0 /\ Live(k)'
        /\ sender'[s].at = p
    BY <1>4, <1>5, <1>7, <1>9 DEF Live
  <2>4. k \notin overlapped => AloneOn(k)' /\ AttemptsCounted(k)'
    <3> SUFFICES ASSUME k \notin overlapped PROVE AloneOn(k)' /\ AttemptsCounted(k)'
      OBVIOUS
    <3>1. attempts[k] = 0 BY <1>3, <1>12 DEF RecordKnown, AttemptsCounted
    <3>2. AloneOn(k)' BY <2>2 DEF AloneOn
    <3>3. AttemptsCounted(k)' BY <1>0, <2>2, <2>3, <3>1 DEF AttemptsCounted, Status
    <3> QED BY <3>2, <3>3
  <2>5. k \notin overlapped \cup unclear => DeliveryKnown(k)'
    <3> SUFFICES ASSUME k \notin overlapped \cup unclear PROVE DeliveryKnown(k)'
      OBVIOUS
    <3>1. delivered[k] = 0 BY <1>3, <1>12 DEF RecordKnown, DeliveryKnown
    <3> QED BY <1>0, <2>2, <2>3, <3>1 DEF DeliveryKnown, Status
  <2> QED BY <1>0, <2>4, <2>5 DEF RecordKnown
<1>16. sender'[s].key = k BY <1>7, <1>9
<1> QED BY <1>0, <1>5, <1>9, <1>10, <1>13, <1>14, <1>15, <1>16, OneRecordPreserves

LEMMA BeginPreserves ==
  ASSUME RunnerInductive, MessagesInductive, NEW s \in Senders, NEW n \in Notices,
         BeginNotice(s, n), fate[n] \in {"new", "waiting"},
         running' = [running EXCEPT ![s] = n], fate' = [fate EXCEPT ![n] = "working"]
  PROVE  MessagesInductive'
<1>0. /\ sender[s] = Idle /\ MessagesTypeOK
      /\ UNCHANGED <<events, template, configured, enabled, record, attempts, delivered,
                     overlapped, unclear>>
      /\ running \in [Threads -> Tasks \cup {NoTask}] /\ fate \in [Notices -> Fates]
  BY DEF BeginNotice, settingVars, recordVars, MessagesInductive, ThreadShape,
         RunnerInductive, RunnerTypeOK
<1>1. /\ running'[s] = n /\ \A t \in Senders \ {s} : running'[t] = running[t]
      /\ \A m \in Notices : fate'[m] \in {"new", "waiting"} => fate[m] \in {"new", "waiting"}
  BY <1>0 DEF Threads
<1>2. PICK new \in SenderState :
        /\ sender' = [sender EXCEPT ![s] = new]
        /\ \/ new = Idle
           \/ new.at = "next" /\ new.key = None /\ new.notice = n
  <2>1. CASE Addressed(n) = {}
    <3>1. sender' = [sender EXCEPT ![s] = Idle]
      BY <1>0, <2>1 DEF BeginNotice, MessagesTypeOK
    <3> QED BY <3>1, IdleTyped
  <2>2. CASE Addressed(n) # {}
    <3>1. sender' = [sender EXCEPT ![s] = Prepared(n)] BY <2>2 DEF BeginNotice
    <3>2. Addressed(n) \subseteq Recipients /\ configured \in BOOLEAN
      BY <1>0 DEF Addressed, MessagesTypeOK
    <3>3. /\ Prepared(n) \in SenderState /\ Prepared(n).at = "next"
          /\ Prepared(n).key = None /\ Prepared(n).notice = n
      BY <3>2, IdleTyped DEF Prepared, SenderState, Places
    <3> QED BY <3>1, <3>3
  <2> QED BY <2>1, <2>2
<1>3. /\ sender' \in [Senders -> SenderState] /\ Others(s) /\ sender'[s] = new
      /\ sender'[s].key = None /\ sender[s].key = None
  BY <1>0, <1>2, IdleTyped, Replacing
<1>4. MessagesTypeOK' BY <1>0, <1>3 DEF MessagesTypeOK, SenderState
<1>5. ThreadShape(s)'
  <2>1. CASE new = Idle BY <1>3, <2>1, ShapeIdle
  <2>2. CASE new # Idle
    <3>1. new.todo \subseteq Recipients BY DEF SenderState
    <3>2. \A r \in new.todo : record'[<<n, r>>].status = "none"
      BY <1>0, <3>1 DEF MessagesInductive, NothingAhead, Status
    <3>3. n # None OBVIOUS
    <3> QED BY <1>1, <1>2, <1>3, <2>2, <3>2, <3>3 DEF ThreadShape, Status
  <2> QED BY <2>1, <2>2
<1> QED BY <1>0, <1>1, <1>3, <1>4, <1>5, OffRecordPreserves

LEMMA StartsNotice ==
  ASSUME RunnerInductive, MessagesInductive,
         \/ \E c \in Publishers, n \in Notices : RunInline(c, n)
         \/ \E w \in Workers : TakeNotice(w)
  PROVE  MessagesInductive'
<1>1. ASSUME NEW c \in Publishers, NEW n \in Notices, RunInline(c, n)
      PROVE  MessagesInductive'
  BY <1>1, BeginPreserves DEF RunInline, SubmitInline
<1>2. ASSUME NEW w \in Workers, TakeNotice(w) PROVE MessagesInductive'
  <2>1. PICK n \in Notices : n = Head(queue) /\ fate[n] = "waiting"
    BY <1>2, QueueSteps DEF TakeNotice, RunnerInductive, QueuedWait
  <2> QED BY <1>2, <2>1, BeginPreserves DEF TakeNotice, TakeTask
<1> QED BY <1>1, <1>2

-----------------------------------------------------------------------------
(* The console's retries, and a restart. *)

LEMMA RetryPreserves ==
  ASSUME RunnerInductive, MessagesInductive, NEW s \in Callers, NEW k \in Watched,
         Retry(s, k)
  PROVE  MessagesInductive'
<1>0. /\ s \in Senders /\ k \in Keys /\ k # None /\ sender[s] = Idle /\ Retriable(k)
      /\ sender' = [sender EXCEPT ![s] = [Idle EXCEPT !.at = "bump", !.key = k,
                                                      !.seen = record[k].retries]]
      /\ overlapped' = IF Busy(k) THEN overlapped \cup {k} ELSE overlapped
      /\ UNCHANGED <<events, template, configured, enabled, record, attempts, delivered,
                     unclear, running, fate>>
      /\ MessagesTypeOK /\ RecordKnown(k)
  BY DEF Retry, BeginRetry, settingVars, runnerVars, MessagesInductive, ThreadShape, Keys
<1>1. record[k] \in [status : Statuses, retries : 0 .. MaxRetries]
  BY <1>0 DEF MessagesTypeOK
<1>2. PICK new \in SenderState :
        /\ sender' = [sender EXCEPT ![s] = new]
        /\ new.at = "bump" /\ new.key = k /\ new.notice = None
        /\ new.seen = record[k].retries
  <2> DEFINE new == [Idle EXCEPT !.at = "bump", !.key = k, !.seen = record[k].retries]
  <2>1. /\ new \in SenderState /\ new.at = "bump" /\ new.key = k /\ new.notice = None
        /\ new.seen = record[k].retries
    BY <1>0, <1>1, IdleTyped DEF SenderState, Places, Idle
  <2> QED BY <1>0, <2>1
<1>3. /\ sender' \in [Senders -> SenderState] /\ Others(s) /\ sender'[s] = new
      /\ sender'[s].key = k /\ sender[s].key = None
  BY <1>0, <1>2, IdleTyped, Replacing
<1>4. overlapped \subseteq overlapped' /\ overlapped' \subseteq Keys
  BY <1>0 DEF MessagesTypeOK
<1>5. MessagesTypeOK' BY <1>0, <1>3, <1>4 DEF MessagesTypeOK, SenderState
<1>6. NonePreserved BY <1>0 DEF NonePreserved, Status
<1>7. ThreadShape(s)'
  <2>1. record'[k].status # "none" /\ record[k].retries < MaxRetries
    BY <1>0 DEF Retriable
  <2> QED BY <1>0, <1>2, <1>3, <2>1 DEF ThreadShape, Status
<1>8. RecordKnown(k)'
  <2>1. CASE k \in overlapped' BY <2>1 DEF RecordKnown
  <2>2. CASE k \notin overlapped'
    <3>1. k \notin overlapped /\ ~Busy(k) BY <1>0, <2>2
    <3>2. \A t \in Senders : ~Works(t, k)
      BY <1>0, <3>1, IdleTyped DEF Busy, Works, MessagesInductive, ThreadShape
    <3>3. \A t \in Senders : Works(t, k)' <=> t = s
      BY <1>3, <3>2 DEF Works, Others
    <3>4. AloneOn(k)' BY <3>3 DEF AloneOn
    <3>5. Status(k) \in {"pending", "failed"} /\ record[k].retries < MaxRetries /\ Live(k)
      BY <1>0 DEF Retriable, Status, Live
    <3>6. AttemptsCounted(k)'
      <4>1. attempts[k] <= 1 + record[k].retries /\ attempts[k] <= 1 + MaxRetries
        BY <1>0, <3>1, <3>5 DEF RecordKnown, AttemptsCounted
      <4> QED BY <1>0, <1>2, <1>3, <3>3, <3>5, <4>1 DEF AttemptsCounted, Status
    <3>7. ASSUME k \notin unclear PROVE DeliveryKnown(k)'
      <4>1. delivered[k] = 0
        BY <1>0, <3>1, <3>2, <3>5, <3>7 DEF RecordKnown, DeliveryKnown
      <4> QED BY <1>0, <1>2, <1>3, <3>3, <3>5, <4>1 DEF DeliveryKnown, Status
    <3> QED BY <1>0, <3>4, <3>6, <3>7 DEF RecordKnown
  <2> QED BY <2>1, <2>2
<1> QED BY <1>0, <1>3, <1>4, <1>5, <1>6, <1>7, <1>8, WorkPreserves

LEMMA RestartMessages ==
  ASSUME RunnerInductive, MessagesInductive, Restart
  PROVE  MessagesInductive'
<1>0. /\ sender' = [s \in Senders |-> Idle]
      /\ unclear' = unclear \cup {sender[s].key : s \in {t \in Senders : sender[t].key # None}}
      /\ UNCHANGED <<template, configured, enabled, record, attempts, delivered, overlapped>>
      /\ fate' = [n \in Tasks |-> IF fate[n] \in {"waiting", "working"} THEN "lost" ELSE fate[n]]
      /\ MessagesTypeOK /\ events' \in 0 .. MaxEvents
  BY DEF Restart, LoseSenders, LoseTasks, settingVars, Event, MessagesInductive,
         MessagesTypeOK
<1>1. \A s \in Senders : sender'[s] = Idle /\ sender'[s].key = None
  BY <1>0, IdleTyped
<1>2. \A s \in Senders : sender[s].key # None =>
        sender[s].key \in Keys /\ sender[s].key \in unclear'
  BY <1>0 DEF MessagesTypeOK
<1>3. unclear \subseteq unclear' /\ unclear' \subseteq Keys
  BY <1>0 DEF MessagesTypeOK
<1>4. sender' \in [Senders -> SenderState] BY <1>0, IdleTyped
<1>5. MessagesTypeOK' BY <1>0, <1>3, <1>4 DEF MessagesTypeOK, SenderState
<1>6. \A s \in Senders : ThreadShape(s)' BY <1>1, ShapeIdle
<1>7. NonePreserved BY <1>0 DEF NonePreserved, Status
<1>8. NothingAhead'
  <2>1. \A n \in Notices : fate'[n] \in {"new", "waiting"} => fate[n] \in {"new", "waiting"}
    BY <1>0
  <2> QED BY <1>7, <2>1, NothingAheadKept DEF MessagesInductive
<1>9. ASSUME NEW k \in Keys PROVE RecordKnown(k)'
  <2>1. k # None /\ RecordKnown(k) BY DEF Keys, MessagesInductive
  <2>2. \A t \in Senders : ~Works(t, k)' BY <1>1, <2>1 DEF Works
  <2>3. k \notin overlapped => AloneOn(k)' /\ AttemptsCounted(k)'
    BY <1>0, <2>1, <2>2 DEF RecordKnown, AloneOn, AttemptsCounted, Live, Status
  <2>4. ASSUME k \notin overlapped \cup unclear' PROVE DeliveryKnown(k)'
    <3>1. \A t \in Senders : ~Works(t, k) BY <1>2, <2>1, <2>4 DEF Works
    <3>2. DeliveryKnown(k) BY <1>3, <2>1, <2>4 DEF RecordKnown
    <3> QED BY <1>0, <2>2, <3>1, <3>2 DEF DeliveryKnown, Status
  <2> QED BY <1>0, <2>3, <2>4 DEF RecordKnown
<1> QED BY <1>5, <1>6, <1>8, <1>9 DEF MessagesInductive

-----------------------------------------------------------------------------
(* The inductive invariant. *)

LEMMA MessagesStart == Init => MessagesInductive
<1> SUFFICES ASSUME Init PROVE MessagesInductive OBVIOUS
<1>1. /\ template = TRUE /\ configured = TRUE /\ enabled = Recipients /\ events = 0
      /\ record = [k \in Keys |-> [status |-> "none", retries |-> 0]]
      /\ sender = [s \in Senders |-> Idle]
      /\ attempts = [k \in Keys |-> 0] /\ delivered = [k \in Keys |-> 0]
      /\ overlapped = {} /\ unclear = {}
  BY DEF Init, MessagesInit
<1>2. /\ sender \in [Senders -> SenderState]
      /\ record \in [Keys -> [status : Statuses, retries : 0 .. MaxRetries]]
      /\ attempts \in [Keys -> 0 .. (MaxRetries + 2)] /\ delivered \in [Keys -> 0 .. 2]
      /\ events \in 0 .. MaxEvents
  BY <1>1, IdleTyped DEF Statuses
<1>3. MessagesTypeOK BY <1>1, <1>2 DEF MessagesTypeOK, SenderState
<1>4. \A s \in Senders : ThreadShape(s) BY <1>1, IdleTyped DEF ThreadShape
<1>5. \A k \in Keys : Status(k) = "none" /\ ~Live(k) BY <1>1 DEF Status, Live
<1>6. NothingAhead BY <1>5 DEF NothingAhead, Keys
<1>7. ASSUME NEW k \in Keys PROVE RecordKnown(k)
  <2>1. \A t \in Senders : ~Works(t, k) BY <1>1, IdleTyped DEF Works, Keys
  <2>2. attempts[k] = 0 /\ delivered[k] = 0 BY <1>1
  <2> QED BY <1>5, <2>1, <2>2 DEF RecordKnown, AloneOn, AttemptsCounted, DeliveryKnown
<1> QED BY <1>3, <1>4, <1>6, <1>7 DEF MessagesInductive

LEMMA StepPreserves ==
  ASSUME RunnerInductive, MessagesInductive, NEW s \in Threads, Step(s)
  PROVE  MessagesInductive'
<1>1. s \in Senders /\ SenderStep(s) /\ UNCHANGED <<running, fate>>
  BY DEF Step, runnerVars, Threads
<1> QED BY <1>1, CreatePreserves, SkipPreserves, BumpPreserves, FailsPreserves,
           SendPreserves, MarkPreserves
        DEF SenderStep

LEMMA MessagesStep ==
  RunnerInductive /\ MessagesInductive /\ [Next]_vars => MessagesInductive'
<1> SUFFICES ASSUME RunnerInductive, MessagesInductive, [Next]_vars
             PROVE  MessagesInductive'
  OBVIOUS
<1>1. CASE UNCHANGED vars
  <2>1. UNCHANGED <<running, fate, sender, record, attempts, delivered, overlapped, unclear>>
    BY <1>1 DEF vars, runnerVars, messageVars
  <2>2. MessagesTypeOK'
    BY <1>1 DEF vars, messageVars, MessagesInductive, MessagesTypeOK
  <2> QED BY <2>1, <2>2, QuietPreserves
<1>2. CASE StartRunner \/ StopRunner \/ StopReturns BY <1>2, RunnerStepsQuiet
<1>3. CASE Restart BY <1>3, RestartMessages
<1>4. CASE \E n \in Notices : SubmitNotice(n) BY <1>4, RunnerStepsQuiet
<1>5. CASE \E c \in Publishers, n \in Notices : RunInline(c, n) BY <1>5, StartsNotice
<1>6. CASE \E w \in Workers : TakeNotice(w) BY <1>6, StartsNotice
<1>7. CASE \E t \in Threads : Step(t) BY <1>7, StepPreserves
<1>8. CASE \E t \in Threads : FinishNotice(t) BY <1>8, RunnerStepsQuiet
<1>9. CASE \E t \in Threads : Panic(t) BY <1>9, PanicPreserves
<1>10. CASE \E c \in Callers, k \in Watched : Retry(c, k) BY <1>10, RetryPreserves
<1>11. CASE ChangeSettings BY <1>11, ConsolePreserves
<1> QED BY <1>1, <1>2, <1>3, <1>4, <1>5, <1>6, <1>7, <1>8, <1>9, <1>10, <1>11 DEF Next

\* Besides the runner's books, each record's mails are accounted for by the
\* threads that have worked on it, one after the other or overlapping.
THEOREM Invariance == Spec => [](RunnerInductive /\ MessagesInductive)
<1>1. Init => RunnerInductive /\ MessagesInductive BY RunnerStarts, MessagesStart
<1>2. RunnerInductive /\ MessagesInductive /\ [Next]_vars
        => (RunnerInductive /\ MessagesInductive)'
  BY RunnerStep, MessagesStep
<1> QED BY <1>1, <1>2, PTL DEF Spec

\* Every variable keeps its type: the queue stays within its size, a record's
\* retry count within MaxMessageSendRetries.
THEOREM WithinBounds == Spec => []TypeOK
<1>1. RunnerInductive /\ MessagesInductive => TypeOK
  BY DEF RunnerInductive, MessagesInductive, TypeOK
<1> QED BY <1>1, Invariance, PTL

\* A recipient gets a mail twice only when two threads worked on its record at
\* once or an outcome was lost on the way to it, and a record nobody overlapped
\* on is sent 1 + MaxRetries times at most, although RetrySendRecord reads the
\* count long before it writes it back (services/message_service.go).
THEOREM DuplicatesExplained == Spec => []DuplicateIsExplained
<1>1. ASSUME MessagesInductive PROVE DuplicateIsExplained
  <2> SUFFICES ASSUME NEW k \in Keys
               PROVE  /\ delivered[k] > 1 => k \in overlapped \cup unclear
                      /\ attempts[k] > 1 + MaxRetries => k \in overlapped
    BY DEF DuplicateIsExplained
  <2>1. RecordKnown(k) /\ delivered[k] \in Nat /\ attempts[k] \in Nat
    BY <1>1 DEF MessagesInductive, MessagesTypeOK
  <2>2. delivered[k] > 1 => k \in overlapped \cup unclear
    BY <2>1 DEF RecordKnown, DeliveryKnown
  <2>3. attempts[k] > 1 + MaxRetries => k \in overlapped
    BY <2>1 DEF RecordKnown, AttemptsCounted
  <2> QED BY <2>2, <2>3
<1> QED BY <1>1, Invariance, PTL

\* When nobody works on a record it says "success" exactly when a mail was
\* delivered, unless threads overlapped on it or an outcome was lost.
THEOREM RecordsTruthful == Spec => []RecordsTellTheTruth
<1>1. ASSUME MessagesInductive PROVE RecordsTellTheTruth
  <2> SUFFICES ASSUME NEW k \in Keys, k \notin overlapped \cup unclear, ~Busy(k),
                      record[k].status \notin {"none", "deleted"}
               PROVE  record[k].status = "success" <=> delivered[k] > 0
    BY DEF RecordsTellTheTruth
  <2>1. \A t \in Senders : ~Works(t, k)
    BY <1>1, IdleTyped DEF Busy, Works, MessagesInductive, ThreadShape, Keys
  <2>2. record[k].status \in {"pending", "success", "failed"} /\ DeliveryKnown(k)
    BY <1>1 DEF MessagesInductive, MessagesTypeOK, Statuses, RecordKnown
  <2>3. delivered[k] = IF record[k].status = "success" THEN 1 ELSE 0
    BY <2>1, <2>2 DEF DeliveryKnown, Status
  <2> QED BY <2>3
<1> QED BY <1>1, Invariance, PTL

=============================================================================
