------------------------------ MODULE AccessLog ------------------------------
(***************************************************************************)
(* The HTTP gateway's access log: requests that log when they end, once    *)
(* (httpgateway/server.go), the bounded queue and the goroutine that       *)
(* writes it to the database in batches (httpgateway/log.go), and the      *)
(* order in which the server stops them (inits/inits.go): the gateway      *)
(* first, then the writer, then the process.                               *)
(***************************************************************************)
EXTENDS Naturals, Sequences, SequencesExt, FiniteSets

CONSTANTS
  Requests,    \* the requests that ever arrive
  QueueSize,   \* navmesh.access-log-queue-size
  BatchSize,   \* navmesh.access-log-batch-size
  MaxAttempts  \* accessLogWriteMaxAttempts

ASSUME SizesAssumption ==
  /\ QueueSize \in Nat \ {0}
  /\ BatchSize \in Nat \ {0}
  /\ MaxAttempts \in Nat \ {0}

VARIABLES
  stage,      \* how far stopBackgroundServers has come
  timedOut,   \* the waits of the shutdown that ran into their deadline
  request,    \* [Requests -> where the request's handler is]
  fate,       \* [Requests -> what became of its log entry]
  writer,     \* accessLogWriterState.writer is set
  stopping,   \* AccessLogWriter.stopping, set with the cancelled context
  queue,      \* AccessLogWriter.queue
  batch,      \* the rows collected by run
  attempt,    \* failed attempts at writing the batch
  worker      \* where run is

httpVars == <<stage, timedOut, request, fate, writer, stopping>>
workerVars == <<batch, attempt, worker>>
vars == <<stage, timedOut, request, fate, writer, stopping, queue, batch, attempt, worker>>

Stages == {"serving", "shutdown", "gatewayStopped", "unset", "waiting", "logStopped", "exit"}
HandlerStates == {"none", "handling", "streaming", "logging", "offering", "sending", "ended"}
Fates == {"new", "refused", "full", "waiting", "working", "done", "lost"}
WorkerStates == {"select", "flush", "drain", "drainFlush", "lastFlush", "ended"}

Init ==
  /\ stage = "serving"
  /\ timedOut = {}
  /\ request = [r \in Requests |-> "none"]
  /\ fate = [r \in Requests |-> "new"]
  /\ writer = TRUE
  /\ stopping = FALSE
  /\ queue = <<>>
  /\ batch = <<>>
  /\ attempt = 0
  /\ worker = "select"

Alive == stage # "exit"

-----------------------------------------------------------------------------
(* Requests. A handler logs once before it returns, but for one path.      *)

Move(r, from, to) ==
  /\ Alive
  /\ request[r] = from
  /\ request' = [request EXCEPT ![r] = to]

Arrive(r) ==
  /\ stage = "serving"
  /\ Move(r, "none", "handling")
  /\ UNCHANGED <<stage, timedOut, fate, writer, stopping, queue, workerVars>>

(* No mapping, no access, or an error of the transport: logged at once.    *)
Reject(r) ==
  /\ Move(r, "handling", "logging")
  /\ UNCHANGED <<stage, timedOut, fate, writer, stopping, queue, workerVars>>

(* The transport answered: the entry is written when the body is closed.   *)
Respond(r) ==
  /\ Move(r, "handling", "streaming")
  /\ UNCHANGED <<stage, timedOut, fate, writer, stopping, queue, workerVars>>

CloseBody(r) ==
  /\ Move(r, "streaming", "logging")
  /\ UNCHANGED <<stage, timedOut, fate, writer, stopping, queue, workerVars>>

(* A 101 answer: ReverseProxy wants a body it can write to, which          *)
(* countingResponseBody is not, and returns its error without closing the  *)
(* body, so that nothing is logged.                                        *)
SwitchProtocols(r) ==
  /\ Move(r, "handling", "ended")
  /\ UNCHANGED <<stage, timedOut, fate, writer, stopping, queue, workerVars>>

(* writeAccessLog reads the writer under its lock and uses it after.       *)
ReadWriter(r) ==
  /\ Move(r, "logging", IF writer THEN "offering" ELSE "ended")
  /\ fate' = [fate EXCEPT ![r] = IF writer THEN @ ELSE "refused"]
  /\ UNCHANGED <<stage, timedOut, writer, stopping, queue, workerVars>>

(* Enqueue holds the read lock from here to the end of Send.               *)
CheckStopping(r) ==
  /\ Move(r, "offering", IF stopping THEN "ended" ELSE "sending")
  /\ fate' = [fate EXCEPT ![r] = IF stopping THEN "refused" ELSE @]
  /\ UNCHANGED <<stage, timedOut, writer, stopping, queue, workerVars>>

Send(r) ==
  /\ Move(r, "sending", "ended")
  /\ LET room == Len(queue) < QueueSize
     IN /\ queue' = IF room THEN Append(queue, r) ELSE queue
        /\ fate' = [fate EXCEPT ![r] = IF room THEN "waiting" ELSE "full"]
  /\ UNCHANGED <<stage, timedOut, writer, stopping, workerVars>>

-----------------------------------------------------------------------------
(* The writer goroutine.                                                   *)

Settled(outcome) == [r \in Requests |-> IF r \in ToSet(batch) THEN outcome ELSE fate[r]]

BeginFlush(next) ==
  /\ worker' = next
  /\ attempt' = 0

(* An entry moves to the batch; a full batch is written at once.           *)
Collect ==
  /\ Alive
  /\ worker \in {"select", "drain"}
  /\ queue # <<>>
  /\ queue' = Tail(queue)
  /\ batch' = Append(batch, Head(queue))
  /\ IF Len(batch') >= BatchSize
       THEN /\ BeginFlush(IF worker = "select" THEN "flush" ELSE "drainFlush")
            /\ fate' = [r \in Requests |-> IF r \in ToSet(batch') THEN "working" ELSE fate[r]]
       ELSE UNCHANGED <<worker, attempt, fate>>
  /\ UNCHANGED <<stage, timedOut, request, writer, stopping>>

(* Seeded fault: the ticker is forgotten, only full batches are written.   *)
NoTick == FALSE /\ UNCHANGED vars

(* The ticker writes what has been collected.                              *)
Tick ==
  /\ Alive
  /\ worker = "select"
  /\ batch # <<>>
  /\ BeginFlush("flush")
  /\ fate' = Settled("working")
  /\ UNCHANGED <<stage, timedOut, request, writer, stopping, queue, batch>>

SeeCancel ==
  /\ Alive
  /\ worker = "select"
  /\ stopping
  /\ worker' = "drain"
  /\ UNCHANGED <<httpVars, queue, batch, attempt>>

(* Nothing queued any more: write the rest and end.                        *)
Drained ==
  /\ Alive
  /\ worker = "drain"
  /\ queue = <<>>
  /\ IF batch = <<>>
       THEN worker' = "ended" /\ UNCHANGED <<attempt, fate>>
       ELSE BeginFlush("lastFlush") /\ fate' = Settled("working")
  /\ UNCHANGED <<stage, timedOut, request, writer, stopping, queue, batch>>

AfterFlush(at) ==
  CASE at = "flush" -> "select" [] at = "drainFlush" -> "drain" [] OTHER -> "ended"

(* Seeded fault: the batch is not emptied after it was written.            *)
EndFlushKeepsBatch(outcome) ==
  /\ Alive
  /\ worker \in {"flush", "drainFlush", "lastFlush"}
  /\ worker' = AfterFlush(worker)
  /\ fate' = Settled(outcome)
  /\ attempt' = 0
  /\ UNCHANGED <<stage, timedOut, request, writer, stopping, queue, batch>>

EndFlush(outcome) ==
  /\ Alive
  /\ worker \in {"flush", "drainFlush", "lastFlush"}
  /\ worker' = AfterFlush(worker)
  /\ fate' = Settled(outcome)
  /\ batch' = <<>>
  /\ attempt' = 0
  /\ UNCHANGED <<stage, timedOut, request, writer, stopping, queue>>

(* One INSERT of all rows succeeds, or fails for good: an error that is    *)
(* not "busy", or "busy" at the last attempt. The rows are then dropped.   *)
Insert == EndFlush("done")
InsertFails == EndFlush("lost")

InsertBusy ==
  /\ Alive
  /\ worker \in {"flush", "drainFlush", "lastFlush"}
  /\ attempt + 1 < MaxAttempts
  /\ attempt' = attempt + 1
  /\ UNCHANGED <<httpVars, queue, batch, worker>>

-----------------------------------------------------------------------------
(* The shutdown. Each wait has a deadline of five seconds.                 *)

Advance(from, to) ==
  /\ stage = from
  /\ stage' = to

BeginShutdown ==
  /\ Advance("serving", "shutdown")
  /\ UNCHANGED <<timedOut, request, fate, writer, stopping, queue, workerVars>>

(* Seeded fault: the gateway stops without waiting for its handlers.       *)
HandlersForgotten == TRUE

(* http.Server.Shutdown returns when no handler runs ...                   *)
HandlersEnded == \A r \in Requests : request[r] \in {"none", "ended"}

GatewayStops ==
  /\ Advance("shutdown", "gatewayStopped")
  /\ HandlersEnded
  /\ UNCHANGED <<timedOut, request, fate, writer, stopping, queue, workerVars>>

(* ... or at the deadline, whatever still runs.                            *)
GatewayTimesOut ==
  /\ Advance("shutdown", "gatewayStopped")
  /\ ~HandlersEnded
  /\ timedOut' = timedOut \cup {"gateway"}
  /\ UNCHANGED <<request, fate, writer, stopping, queue, workerVars>>

UnsetWriter ==
  /\ Advance("gatewayStopped", "unset")
  /\ writer' = FALSE
  /\ UNCHANGED <<timedOut, request, fate, stopping, queue, workerVars>>

(* Seeded fault: stopping is checked and the entry sent without the lock.  *)
NoLock == TRUE

(* Stop takes the write lock: no Enqueue is between its check and its send.*)
NoSender == \A r \in Requests : request[r] # "sending"

StopWriter ==
  /\ Advance("unset", "waiting")
  /\ NoSender
  /\ stopping' = TRUE
  /\ UNCHANGED <<timedOut, request, fate, writer, queue, workerVars>>

WriterStops ==
  /\ Advance("waiting", "logStopped")
  /\ worker = "ended"
  /\ UNCHANGED <<timedOut, request, fate, writer, stopping, queue, workerVars>>

WriterTimesOut ==
  /\ Advance("waiting", "logStopped")
  /\ worker # "ended"
  /\ timedOut' = timedOut \cup {"log"}
  /\ UNCHANGED <<request, fate, writer, stopping, queue, workerVars>>

(* The other servers stop and the process ends.                            *)
Exit ==
  /\ Advance("logStopped", "exit")
  /\ UNCHANGED <<timedOut, request, fate, writer, stopping, queue, workerVars>>

Handler(r) ==
  \/ Arrive(r) \/ Reject(r) \/ Respond(r) \/ CloseBody(r) \/ SwitchProtocols(r)
  \/ ReadWriter(r) \/ CheckStopping(r) \/ Send(r)

Run == Collect \/ Tick \/ SeeCancel \/ Drained \/ Insert \/ InsertFails \/ InsertBusy

Shutdown ==
  \/ BeginShutdown \/ GatewayStops \/ GatewayTimesOut \/ UnsetWriter \/ StopWriter
  \/ WriterStops \/ WriterTimesOut \/ Exit

Next == (\E r \in Requests : Handler(r)) \/ Run \/ Shutdown

Spec == Init /\ [][Next]_vars

(* The scheduler runs the writer, and the database answers it.             *)
FairSpec == Spec /\ WF_vars(Run)

-----------------------------------------------------------------------------
TypeOK ==
  /\ stage \in Stages
  /\ timedOut \subseteq {"gateway", "log"}
  /\ request \in [Requests -> HandlerStates]
  /\ fate \in [Requests -> Fates]
  /\ writer \in BOOLEAN /\ stopping \in BOOLEAN
  /\ queue \in Seq(Requests) /\ Len(queue) <= QueueSize
  /\ batch \in Seq(Requests) /\ Len(batch) <= BatchSize
  /\ attempt \in 0..(MaxAttempts - 1)
  /\ worker \in WorkerStates

(* The abstract queue this log implements. While a batch is written its    *)
(* entries are being worked on; before that they still wait, ahead of the  *)
(* queue. The queue is closing from the moment the gateway is told to find *)
(* no writer until Stop holds the lock.                                    *)
Flushing == worker \in {"flush", "drainFlush", "lastFlush"}

Log == INSTANCE BoundedQueue WITH
  Entries <- Requests,
  Capacity <- QueueSize,
  Room <- QueueSize + BatchSize - 1,
  phase <- IF stopping THEN "closed" ELSE IF writer THEN "open" ELSE "closing",
  pending <- IF Flushing THEN queue ELSE batch \o queue,
  fate <- [r \in Requests |-> IF fate[r] = "full" THEN "refused" ELSE fate[r]]

(* Requests' entries are queued, taken in order, and settled once, and     *)
(* none is accepted once Stop has begun: AccessLogWriter is a bounded      *)
(* queue (Enqueue, run and Stop of httpgateway/log.go).                    *)
ImplementsQueue == Log!Spec

(* The order of the shutdown serves the log: an entry finds no writer only *)
(* when the gateway gave up waiting for handlers (inits/inits.go,          *)
(* stopHTTPMappingServer before stopHTTPRuntime).                          *)
RefusedAfterTimeout ==
  (\E r \in Requests : fate[r] = "refused") => "gateway" \in timedOut

(* When Stop returns without error every accepted entry has been written,  *)
(* or dropped by a failed INSERT, for all time to come: nothing slips in   *)
(* between the check of stopping and the last flush.                       *)
StopDrains ==
  stage \in {"logStopped", "exit"} /\ "log" \notin timedOut
    => \A r \in Requests : fate[r] \notin {"waiting", "working"}

(* An accepted entry is settled unless the process ends first, however few *)
(* requests follow it: the ticker writes incomplete batches.               *)
AcceptedSettles ==
  \A r \in Requests :
    fate[r] = "waiting" ~> (fate[r] \in {"done", "lost"} \/ stage = "exit")

=============================================================================
