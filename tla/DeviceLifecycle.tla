-------------------------- MODULE DeviceLifecycle --------------------------
(***************************************************************************)
(* The row of one device, the registry of its unsaved activity             *)
(* (services/liveness_registry.go), and everything that moves the status   *)
(* of the row (services/device_service.go): registrations, heartbeats and  *)
(* tunnel hellos, the administrator, the periodic flush of the registry,   *)
(* the offline cleaner, and the server's end and next start                *)
(* (inits/inits.go).                                                       *)
(*                                                                         *)
(* Register and Heartbeat read the row, work on what they read and write   *)
(* it later, Register every column of it; no transaction holds the two     *)
(* together.                                                               *)
(*                                                                         *)
(* Abstractions.  Columns other than status and last_seen_time are left    *)
(* out.  A token is enabled or not (DeviceTokens models its cache and      *)
(* expiry).  Only the flush's transaction can fail; it rolls back.  The    *)
(* device is one guid: a device that registers anew after its deletion     *)
(* gets another.                                                           *)
(***************************************************************************)
EXTENDS Naturals

CONSTANTS
  Clients,      \* goroutines serving Register, Heartbeat and Authenticate
  Timeout,      \* deviceHeartbeatTimeout
  EventDelay,   \* deviceOfflineEventDelay
  MaxTime,      \* bound: the clock
  MaxCalls,     \* bound: registrations and heartbeats
  MaxRequests   \* bound: requests of the administrator

ASSUME TimeAssumption ==
  /\ Timeout \in Nat /\ EventDelay \in Nat /\ MaxTime \in Nat \ {0}
  /\ MaxCalls \in Nat /\ MaxRequests \in Nat

Time == 0 .. MaxTime      \* 0: never
Statuses == {"none", "registered", "online", "offline", "disabled"}
Rows == [status : Statuses, seen : Time]
Flushers == {"run", "cleaner"}

VARIABLES
  now,       \* the clock
  row,       \* the row of navmesh_devices; status "none": no row
  created,   \* the row was inserted once
  token,     \* "none", "enabled" or "disabled": the row of device_tokens
  dirty,     \* LivenessRegistry.dirty; 0: no entry
  flushPc,   \* where Flush is; flushMu admits one at a time
  flusher,   \* who runs it
  snap,      \* its snapshot
  stamp,     \* the time it will write
  cleanerPc, \* where StartOfflineCleaner is
  scan,      \* the time of its query for offline devices
  offline,   \* the open offline event and the time of the last one
  client,    \* registrations and heartbeats under way
  adminPc,   \* where the administrator's goroutine is
  tunnel,    \* a tunnel of the device is up and touches the registry
  calls,     \* auxiliary: registrations and heartbeats
  requests,  \* auxiliary: requests of the administrator
  touched,   \* auxiliary: time of the last Touch
  known,     \* auxiliary: touched when the cleaner's round began
  settled    \* auxiliary: up to when activity is written, or given up: row
             \* disabled or gone, or lost with the process

flush == <<flushPc, flusher, snap, stamp>>
cleaner == <<cleanerPc, scan>>
history == <<touched, known, settled>>
vars == <<now, row, created, token, dirty, flush, cleaner, offline, client,
          adminPc, tunnel, calls, requests, history>>

Latest(a, b) == IF a > b THEN a ELSE b
Gone == [status |-> "none", seen |-> 0]
Present == row.status # "none"
Free == [at |-> "idle", boot |-> FALSE, read |-> Gone, time |-> 0]

TypeOK ==
  /\ now \in 1 .. MaxTime
  /\ row \in Rows /\ created \in BOOLEAN
  /\ token \in {"none", "enabled", "disabled"}
  /\ dirty \in Time /\ snap \in Time /\ stamp \in Time /\ scan \in Time
  /\ flushPc \in {"idle", "tx", "ack"} /\ flusher \in Flushers
  /\ cleanerPc \in {"idle", "flush", "stale", "query", "record"}
  /\ offline \in [open : BOOLEAN, at : Time]
  /\ client \in [Clients -> [at : {"idle", "check", "write", "close", "ack",
                                   "validate", "save", "insert"},
                             boot : BOOLEAN, read : Rows, time : Time]]
  /\ adminPc \in {"idle", "create", "update", "forget"}
  /\ tunnel \in BOOLEAN
  /\ calls \in 0 .. MaxCalls /\ requests \in 0 .. MaxRequests
  /\ touched \in Time /\ known \in Time /\ settled \in Time

\* A server that starts finds the database its predecessor left.
Init ==
  /\ now = 1
  /\ \/ row = Gone /\ token = "none"
     \/ row = [status |-> "registered", seen |-> 0] /\ token = "none"
     \/ row \in [status : {"online", "disabled"}, seen : {now}] /\ token = "enabled"
  /\ created = Present
  /\ dirty = 0 /\ flushPc = "idle" /\ flusher = "run" /\ snap = 0 /\ stamp = 0
  /\ cleanerPc = "idle" /\ scan = 0 /\ offline = [open |-> FALSE, at |-> 0]
  /\ client = [c \in Clients |-> Free]
  /\ adminPc = "idle" /\ tunnel = FALSE /\ calls = 0 /\ requests = 0
  /\ touched = 0 /\ known = 0 /\ settled = row.seen

Tick ==
  /\ now < MaxTime
  /\ now' = now + 1
  /\ UNCHANGED <<calls, row, created, token, dirty, flush, cleaner, offline, client, adminPc,
                 tunnel, requests, history>>

-----------------------------------------------------------------------------
(* Activity. *)

\* LivenessRegistry.Touch at time t
Touch(t) ==
  /\ dirty' = Latest(dirty, t)
  /\ touched' = t

\* Every frame of the control connection touches the registry.
TunnelActive ==
  /\ tunnel
  /\ Touch(now)
  /\ UNCHANGED <<now, calls, row, created, token, flush, cleaner, offline, client, adminPc,
                 tunnel, requests, known, settled>>

TunnelDown ==
  /\ tunnel /\ tunnel' = FALSE
  /\ UNCHANGED <<now, calls, row, created, token, dirty, flush, cleaner, offline, client,
                 adminPc, requests, history>>

\* plausible bug: what was flushed is removed whatever was touched since
AckedAlways(t) == 0

\* LivenessRegistry.ack of one device: an entry touched since stays.
Acked(t) == IF dirty <= t THEN 0 ELSE dirty

Written(r) ==
  /\ row' = r
  /\ settled' = Latest(settled, r.seen)

GivenUp(t) == settled' = Latest(settled, t) /\ UNCHANGED row

-----------------------------------------------------------------------------
(* Heartbeats, and the hellos that authenticate by one. *)

Call == calls < MaxCalls /\ calls' = calls + 1
Goto(c, at) == client' = [client EXCEPT ![c].at = at]
Finish(c) == client' = [client EXCEPT ![c] = Free]

\* The heartbeat of a hello brings the tunnel up once it is answered.
Answer(c) == Finish(c) /\ tunnel' \in {tunnel, TRUE}

BeginHeartbeat(c) ==
  /\ client[c].at = "idle" /\ Call /\ Present
  /\ client' = [client EXCEPT ![c] = [Free EXCEPT !.at = "check", !.read = row]]
  /\ UNCHANGED <<now, row, created, token, dirty, flush, cleaner, offline, adminPc,
                 tunnel, requests, history>>

\* A device that was online need not be written: the flush will do it.
CheckHeartbeat(c) ==
  /\ client[c].at = "check"
  /\ IF token = "enabled" /\ client[c].read.status \notin {"registered", "disabled"}
     THEN /\ Touch(now)
          /\ \/ /\ client' = [client EXCEPT ![c].at = "write", ![c].time = now]
                /\ UNCHANGED tunnel
             \/ client[c].read.status = "online" /\ Answer(c)
     ELSE Finish(c) /\ UNCHANGED <<dirty, touched, tunnel>>
  /\ UNCHANGED <<now, calls, row, created, token, flush, cleaner, offline, adminPc, requests,
                 known, settled>>

\* The update finds the row by its guid, whatever became of it since.
WriteHeartbeat(c) ==
  LET t == client[c].time IN
  /\ client[c].at = "write"
  /\ IF Present
     THEN Written([status |-> "online", seen |-> t]) ELSE GivenUp(t)
  /\ client' = [client EXCEPT ![c].at = "close", ![c].read = Gone]
  /\ UNCHANGED <<now, calls, created, token, dirty, flush, cleaner, offline, adminPc,
                 tunnel, requests, touched, known>>

\* closeOpenDeviceOfflineEvents
CloseOfflineEvents(c) ==
  /\ client[c].at = "close"
  /\ offline' = [offline EXCEPT !.open = FALSE]
  /\ Goto(c, "ack")
  /\ UNCHANGED <<now, calls, row, created, token, dirty, flush, cleaner, adminPc, tunnel,
                 requests, history>>

MarkPersisted(c) ==
  /\ client[c].at = "ack"
  /\ dirty' = Acked(client[c].time)
  /\ Answer(c)
  /\ UNCHANGED <<now, calls, row, created, token, flush, cleaner, offline, adminPc,
                 requests, history>>

-----------------------------------------------------------------------------
(* Registrations: with the bootstrap token, or with the device's own. *)

BeginRegister(c, boot) ==
  /\ client[c].at = "idle" /\ Call
  /\ Present \/ (boot /\ ~created)
  /\ client' = [client EXCEPT ![c] = [at |-> "validate", boot |-> boot,
                                      read |-> row, time |-> now]]
  /\ UNCHANGED <<now, row, created, token, dirty, flush, cleaner, offline,
                 adminPc, tunnel, requests, history>>

\* What Register makes of the row it read: the bootstrap token takes a device
\* back to "registered" only if it has no enabled token.
Registered(c) ==
  LET r == client[c].read IN
  IF ~client[c].boot THEN [status |-> "online", seen |-> client[c].time]
  ELSE IF r.status = "none" \/ token # "enabled" THEN [r EXCEPT !.status = "registered"]
  ELSE r

\* validateRegisterToken
ValidateRegister(c) ==
  /\ client[c].at = "validate"
  /\ IF client[c].boot \/ token = "enabled"
     THEN client' = [client EXCEPT
            ![c].at = IF client[c].read.status = "none" THEN "insert" ELSE "save",
            ![c].read = Registered(c), ![c].time = 0]
     ELSE Finish(c)
  /\ UNCHANGED <<now, calls, row, created, token, dirty, flush, cleaner, offline,
                 adminPc, tunnel, requests, history>>

\* Save writes every column, and inserts the row again if it was deleted.
SaveRegister(c) ==
  /\ client[c].at = "save"
  /\ Written(client[c].read)
  /\ Finish(c)
  /\ UNCHANGED <<now, calls, created, token, dirty, flush, cleaner, offline, adminPc,
                 tunnel, requests, touched, known>>

\* Of two first registrations the serial number's unique index refuses one.
InsertRegister(c) ==
  /\ client[c].at = "insert"
  /\ IF created THEN UNCHANGED <<row, settled>> ELSE Written(client[c].read)
  /\ created' = TRUE
  /\ Finish(c)
  /\ UNCHANGED <<now, calls, token, dirty, flush, cleaner, offline, adminPc, tunnel,
                 requests, touched, known>>

-----------------------------------------------------------------------------
(* The administrator. *)

Request == requests < MaxRequests /\ adminPc = "idle" /\ requests' = requests + 1

\* DeviceTokenService.SetStatus
DisableToken ==
  /\ Request /\ token = "enabled"
  /\ token' = "disabled"
  /\ UNCHANGED <<now, calls, row, created, dirty, flush, cleaner, offline, client,
                 adminPc, tunnel, history>>

Disable ==
  /\ Request
  /\ Present
  /\ row' = [row EXCEPT !.status = "disabled"]
  /\ UNCHANGED <<now, calls, created, token, dirty, flush, cleaner, offline, client,
                 adminPc, tunnel, history>>

BeginEnable ==
  /\ Request /\ Present
  /\ adminPc' = IF row.status \in {"registered", "disabled"} THEN "create" ELSE "update"
  /\ UNCHANGED <<now, calls, row, created, token, dirty, flush, cleaner, offline,
                 client, tunnel, history>>

\* CreateToken refuses a device that has gone.
EnableCreateToken ==
  /\ adminPc = "create"
  /\ IF Present THEN token' = "enabled" /\ adminPc' = "update"
                ELSE UNCHANGED token /\ adminPc' = "idle"
  /\ UNCHANGED <<now, calls, row, created, dirty, flush, cleaner, offline, client,
                 tunnel, requests, history>>

EnableUpdate ==
  /\ adminPc = "update"
  /\ row' = IF row.status \in {"registered", "disabled"}
            THEN [row EXCEPT !.status = "offline"] ELSE row
  /\ adminPc' = "idle"
  /\ UNCHANGED <<now, calls, created, token, dirty, flush, cleaner, offline, client,
                 tunnel, requests, history>>

\* The tunnel and the sessions are closed before the transaction.
Delete ==
  /\ Request /\ Present
  /\ row' = Gone /\ token' = "none"
  /\ tunnel' \in {tunnel, FALSE}
  /\ adminPc' = "forget"
  /\ UNCHANGED <<now, calls, created, dirty, flush, cleaner, offline, client, history>>

\* LivenessRegistry.ForgetDevice
ForgetDevice ==
  /\ adminPc = "forget"
  /\ dirty' = 0
  /\ settled' = Latest(settled, dirty)
  /\ adminPc' = "idle"
  /\ UNCHANGED <<now, calls, row, created, token, flush, cleaner, offline, client,
                 tunnel, requests, touched, known>>

-----------------------------------------------------------------------------
(* LivenessRegistry.Flush, run every so often and by the offline cleaner. *)

\* The cleaner's own flush, or its turn to go on if there is nothing to flush.
BeginRound ==
  /\ cleanerPc = "idle"
  /\ cleanerPc' = IF dirty = 0 THEN "stale" ELSE "flush"
  /\ known' = touched

\* plausible bug: the cleaner looks at the rows without a flush
BeginFlushSkipped(f) ==
  /\ flushPc = "idle"
  /\ IF f = "cleaner"
     THEN cleanerPc = "idle" /\ cleanerPc' = "stale" /\ known' = touched /\ UNCHANGED flush
     ELSE /\ flushPc' = "tx" /\ flusher' = f /\ snap' = dirty /\ stamp' = now
          /\ UNCHANGED <<cleanerPc, known>>
  /\ UNCHANGED <<now, calls, row, created, token, dirty, scan, offline, client, adminPc,
                 tunnel, requests, touched, settled>>

BeginFlush(f) ==
  /\ flushPc = "idle"
  /\ IF f = "cleaner" THEN BeginRound ELSE UNCHANGED <<cleanerPc, known>>
  /\ IF dirty = 0 THEN UNCHANGED flush
     ELSE flushPc' = "tx" /\ flusher' = f /\ snap' = dirty /\ stamp' = now
  /\ UNCHANGED <<now, calls, row, created, token, dirty, scan, offline, client, adminPc,
                 tunnel, requests, touched, settled>>

\* plausible bug: the flush forgets that the row may be disabled
FlushablePresent == Present

Flushable == row.status \notin {"none", "disabled"}

\* The transaction stamps the row with the time Flush began, not with the
\* snapshot's.
Stamp == stamp

FlushCommits ==
  /\ flushPc = "tx"
  /\ flushPc' = "ack"
  /\ IF Flushable
     THEN Written([status |-> "online", seen |-> Stamp]) ELSE GivenUp(snap)
  /\ UNCHANGED <<now, calls, created, token, dirty, flusher, snap, stamp, cleaner,
                 offline, client, adminPc, tunnel, requests, touched, known>>

\* The cleaner gives up this round.
FlushFails ==
  /\ flushPc = "tx"
  /\ flushPc' = "idle" /\ flusher' = "run" /\ snap' = 0 /\ stamp' = 0
  /\ cleanerPc' = IF flusher = "cleaner" THEN "idle" ELSE cleanerPc
  /\ UNCHANGED <<now, calls, row, created, token, dirty, scan, offline, client, adminPc, tunnel,
                 requests, history>>

AckFlush ==
  /\ flushPc = "ack"
  /\ dirty' = Acked(snap)
  /\ flushPc' = "idle" /\ flusher' = "run" /\ snap' = 0 /\ stamp' = 0
  /\ cleanerPc' = IF flusher = "cleaner" THEN "stale" ELSE cleanerPc
  /\ UNCHANGED <<now, calls, row, created, token, scan, offline, client, adminPc, tunnel, requests,
                 history>>

-----------------------------------------------------------------------------
(* The offline cleaner, after its flush. *)

Before(t, age) == t = 0 \/ t + age < now

\* MarkStaleOnlineDevicesOffline
MarkStale ==
  /\ cleanerPc = "stale" /\ cleanerPc' = "query"
  /\ row' = IF row.status = "online" /\ Before(row.seen, Timeout)
            THEN [row EXCEPT !.status = "offline"] ELSE row
  /\ UNCHANGED <<now, calls, created, token, dirty, flush, scan, offline, client,
                 adminPc, tunnel, requests, history>>

\* RecordStaleOfflineEvents: the query ...
QueryStale ==
  /\ cleanerPc = "query"
  /\ cleanerPc' = IF /\ row.status = "offline" /\ Before(row.seen, EventDelay)
                     /\ offline.at = 0 \/ offline.at < row.seen
                  THEN "record" ELSE "idle"
  /\ scan' = IF cleanerPc' = "record" THEN now ELSE 0
  /\ UNCHANGED <<now, calls, row, created, token, dirty, flush, offline, client, adminPc,
                 tunnel, requests, history>>

Silent == dirty + EventDelay <= scan \/ dirty = 0

\* ... and the event of each device it found that the registry knows nothing
\* of, by the clock of the query.
RecordOffline ==
  /\ cleanerPc = "record" /\ cleanerPc' = "idle" /\ scan' = 0
  /\ offline' = IF Silent THEN [open |-> TRUE, at |-> scan] ELSE offline
  /\ UNCHANGED <<now, calls, row, created, token, dirty, flush, client, adminPc, tunnel,
                 requests, history>>

-----------------------------------------------------------------------------
(* The process ends and another one starts.                                *)

\* markBootStaleDevicesOffline, before anything listens
Booted == IF row.status = "online" /\ Before(row.seen, Timeout)
          THEN [row EXCEPT !.status = "offline"] ELSE row

\* A crash at any step, or an orderly stop, which flushes once more but does
\* not wait for the requests under way: what is dirty is lost, a transaction
\* rolls back, and goroutines end between two statements.
Restart ==
  /\ row' = Booted
  /\ settled' = Latest(settled, touched)
  /\ dirty' = 0 /\ flushPc' = "idle" /\ flusher' = "run" /\ snap' = 0 /\ stamp' = 0
  /\ cleanerPc' = "idle" /\ scan' = 0
  /\ client' = [c \in Clients |-> Free]
  /\ adminPc' = "idle" /\ tunnel' = FALSE
  /\ UNCHANGED <<now, calls, created, token, offline, requests, touched, known>>

Client(c) ==
  \/ CheckHeartbeat(c) \/ WriteHeartbeat(c) \/ CloseOfflineEvents(c)
  \/ MarkPersisted(c)
  \/ ValidateRegister(c) \/ SaveRegister(c) \/ InsertRegister(c)

Administrator == EnableCreateToken \/ EnableUpdate \/ ForgetDevice
Cleaner == MarkStale \/ QueryStale \/ RecordOffline

Next ==
  \/ Tick \/ TunnelActive \/ TunnelDown
  \/ \E c \in Clients : \/ BeginHeartbeat(c) \/ Client(c)
                        \/ \E boot \in BOOLEAN : BeginRegister(c, boot)
  \/ DisableToken \/ Disable \/ BeginEnable \/ Delete \/ Administrator
  \/ \E f \in Flushers : BeginFlush(f)
  \/ FlushCommits \/ FlushFails \/ AckFlush
  \/ Cleaner
  \/ Restart

Spec == Init /\ [][Next]_vars

-----------------------------------------------------------------------------
\* The latest activity of the device is in the registry until the row has had
\* a last_seen_time as late (LivenessRegistry: "the latest timestamp remains
\* dirty until a successful flush acks it"), unless the device was found
\* disabled or deleted, or the process ended with it: a touch that arrives while a flush or a heartbeat is
\* between its write and its ack is not acked with it.
NoActivityLost ==
  touched > settled => dirty >= touched

Writing(c) == client[c].at \in {"write", "save"} /\ client'[c].at # client[c].at

\* A device the administrator disabled comes back by Enable, by a registration,
\* or by a heartbeat that read the row before it was disabled: never by the
\* flush, the cleaner, a restart of the server, or a heartbeat that knew.
DisabledSticks ==
  [][row.status = "disabled" /\ row'.status # "disabled" =>
       \/ row' = Gone
       \/ adminPc = "update"
       \/ \E c \in Clients : Writing(c) /\ client[c].read.status # "disabled"]_vars

\* The cleaner takes a device offline only when the last activity the
\* registry had seen when the cleaner's round began is older than the timeout:
\* the round flushes first, and activity since is dirty and will bring the
\* device back.  (Unless a registration, a slow heartbeat or a slow flush has
\* put back an older last_seen_time, or the row was disabled or gone.)
OfflineMeansSilent ==
  [][MarkStale /\ row' # row =>
       known = 0 \/ known + Timeout < now \/ row.seen < settled]_vars

\* An offline event is recorded for a device that has been silent for the
\* delay, or whose activity since the query is in the database already.
OfflineEventMeansSilent ==
  [][RecordOffline /\ offline' # offline =>
       touched = 0 \/ touched + EventDelay <= now \/ touched <= settled]_vars
=============================================================================
