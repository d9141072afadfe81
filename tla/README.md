# navmesh-go: TLA+ models and proofs

NavMesh gives remote access to devices behind NAT. A client on the device
(`cmd/navmesh-client`) keeps a tunnel open to the server; the server's SSH, TCP
and HTTP gateways forward users' connections through it; a console (the HTTP
API) administers devices, tokens, mappings, policies and upgrades in one SQL
database.

This directory holds the TLA+ specifications of the parts of that system where
goroutines, callbacks, requests and failures interleave, the TLC configurations
that check them on small instances, and TLAPS proofs of the properties that
matter most for instances of any size. `PROJECT.json` is the machine-readable
index: which definition models which lines, which properties each run checks,
which mutation of the model each property catches, which theorems are proved.

Contents: 1 the system, 2 the modules, 3 the runs, 4 fairness, 5 bounds,
6 proofs, 7 where code and documents differ, 8 what is not modelled, 9 the plan.

To check a run: `tlc -workers 2 -config MCRouteStore.cfg MCRouteStore`.
To check a proof: `tlapm RouteStoreProofs.tla`.

## 1. The system

### Components, their state and their operations

| Component | State | Operations | Correct when |
|---|---|---|---|
| Tunnel registry (`tunnel/manager.go`, `tunnel/server.go`) | device -> item (QUIC control and data connection, TCP control connection, channel of idle TCP data connections), under a mutex; rows of `device_connections` | hello of a control, data or legacy connection; open a stream; unregister; CloseDevice; Stop | cleaning up an old tunnel never hurts the new one; nothing of an old tunnel stays open; an acknowledged data connection is not lost; the rows agree with the map |
| Device tokens (`services/device_token_service.go`) | rows of tokens; a cache of validations (two minutes, bounded) | Validate, SetStatus, CreateToken and Rotate, Delete, clear the cache | a revoked token is not accepted for longer than the cache's lifetime; an expired one never |
| Device lifecycle (`services/device_service.go`, `liveness_registry.go`) | the device's row; the in-memory map of unsaved activity; deferred offline events | Register, Heartbeat, tunnel Touch, flush, offline cleaner, Enable, Disable, Delete | no activity is lost; only silent devices go offline and are reported; a disabled device stays so |
| Runtime policy and sessions (`services/runtime_policy.go`, `session_registry.go`, `session_service.go`) | counters of permits, hits per source, live sessions and their closers, markers of forced closes, rows | Acquire, Release, RegisterSession, CloseSession, ConsumeForceClosed | permits balance; limits hold; an administrator's close ends the session and is recorded |
| Gateways' handlers (`sshgateway`, `tcpgateway`, `httpgateway`) | one goroutine per connection, or one pooled HTTP connection | permit, row, stream, registration, bridge, finalizer | as above |
| Byte forwarding (`internal/streambridge`, the client's bridge) | three connections, two bridges, two copies each | read, write, half-close, deadline, close | nothing is lost that need not be; both bridges end |
| HTTP routes (`httpgateway/route_store.go`, `lookup.go`, the mapping, policy, group and device services) | a snapshot in memory; a channel of one reload token; three tables | save and disable mappings, policies, groups, devices; reload; look up | no change is forgotten; both ways of answering agree |
| Upgrades (`services/device_upgrade_service.go`, client) | task rows with leases; the client's partial file, completed file, binary, backup | create, poll, report; download, resume, verify, swap, restart | only whole releases run; success is true; tasks end |
| TCP listeners (`tcpgateway/server.go`, `tcp_mapping_service.go`) | port -> listener; mappings | save, disable, Reload, accept | listeners follow the table; a port has one mapping |
| Client loop (`cmd/navmesh-client/main.go`) | state file, tokens, transport, backoff | register, connect, fall back, heartbeat | it comes back after any failure |
| Access log (`httpgateway/log.go`) | bounded queue, batch, the current writer | log, flush, retry, Stop | what was accepted is written before Stop returns |
| Notifications (`notification_runner.go`, `message_service.go`, `email_service.go`) | bounded queue of tasks, workers; send records | submit, send, mark, retry, Stop | each accepted task runs once; mails are doubled only for known reasons |
| Traffic and telemetry (`device_traffic_service.go`, `liveness_registry.go`, the client's snapshot) | the last counters, totals, the time of the last sample | sample, grant, record, forget | a reset counts neither twice nor negatively; samples are spaced |
| Start and stop (`inits/inits.go`) | the components' cancel functions | start, stop each, with deadlines | nothing writes to what is gone |
| Maintenance, statistics, SSH aliases, API and routers, console, packaging | tables | queries, decoding, static files | single statements |

### How they interact

- The client registers over HTTP, then opens a control connection and data
  connections to the tunnel server; each hello validates the device's token
  (DeviceTokens), touches the liveness registry (DeviceLifecycle) and enters the
  registry (TunnelManager).
- A gateway looks its route up (RouteStore), takes a permit, writes a session
  row, asks the registry for a stream, registers the closers, and bridges
  (Sessions, Forwarding). Its finalizer and an administrator's close meet in the
  registry of sessions.
- The console commits to the database first and then, without a lock, tells the
  memory of it: it clears the token cache, closes the sessions and the tunnel of
  a device, requests a reload of the routes.
- Heartbeats bring upgrades (Upgrade) and restart requests (Client) to the
  client and counters back (Telemetry).
- The console's changes of TCP mappings each start a reload of the listeners
  (TCPListeners), in a goroutine of its own.
- The offline cleaner, heartbeats and the release API submit notices to the runner,
  whose workers send mails (Notifications); the HTTP gateway's handlers hand
  their log entries to a writer (AccessLog). The shutdown stops the gateways
  before the writer, and the runner late.

### Which behaviours are hard

Nearly every defect to be feared here has the same shape: state is read or
changed under a lock or in a statement, the lock or the statement ends, and the
rest (closing what was replaced, clearing a cache, writing the row back,
reloading) runs later, against whatever others did meanwhile. To this come
channels with bounded capacity, connections that fail at any point, reports
that are lost or late, clients that crash with files half moved, servers that
stop while requests are under way, and deadlines.
`PROJECT.json` lists these under "hazards", each at its line, with the
properties that would catch it.

## 2. The modules

| Module | Models | Shape |
|---|---|---|
| `TunnelManager` | registry and its handlers, one device | a goroutine per connection, openers, an administrator's CloseDevice, Stop |
| `DeviceTokens` | tokens and validation cache | validators and administrators, a clock |
| `DeviceLifecycle` | row, liveness registry, cleaner, registrations | requests of the device, flushers, cleaner, administrator, a clock |
| `Sessions` | permits, registry of sessions, rows, three gateways | a handler per session, administrators, crashes |
| `Forwarding` | both bridges of one forwarded connection | two copiers per bridge, user, service, transport |
| `RouteStore` | snapshot of HTTP routes and the tables | administrators, the client's own writes, the reloader, failures, restarts |
| `Upgrade` | task rows, the client's download and installation | handlers of the server, the client's goroutine, faults, crashes |
| `TCPListeners` | TCP mappings, their ports, overlapping reloads, listeners | administrators, reloads, connections, Stop, other processes that take ports |
| `BoundedQueue` | what a bounded in-memory queue promises (abstract) | accept, refuse, take, settle, close, crash |
| `AccessLog` | the access log's queue and writer, the shutdown around it | handlers, the writer's goroutine, a database that is busy or fails, `inits.go` |
| `NotificationRunner` | the runner: mutex, queue, workers | used by `Notifications` |
| `Messages` | send records, sending, retries by the console | used by `Notifications` |
| `Notifications` | the two put together, with Stop and restarts | workers, console requests, a mail server |
| `Client` | the client's loop: state file, tokens, tunnels, heartbeat loops, restart requests | main goroutine, heartbeat loops, network, disk, crashes, the server's rows |
| `Telemetry` | counters from the device's interface to the totals | the device, overlapping handlers, failures |
| `TunnelManagerProofs` | theorems of `TunnelManager` and `Telemetry` | section 6 |
| `SessionsProofs` | theorems of `Sessions` and `Forwarding` | section 6 |
| `AccessLogProofs` | theorems of `AccessLog` and `TCPListeners` | section 6 |
| `RouteStoreProofs` | theorems of `RouteStore` and `Client` | section 6 |
| `DeviceTokensProofs`, `DeviceLifecycleProofs`, `NotificationsProofs`, `UpgradeProofs` | theorems of the module each is named for | section 6 |
| `MC...` | values of the constants for TLC | section 3 |

Four modules share a proof module with another component, so their
specifications and type invariants carry the component's name: `ForwardingSpec`,
`ListenersSpec`, `ClientSpec`, `TelemetrySpec` and so on. Everywhere else they
are `Init`, `Next`, `Spec` and `TypeOK`.

The modules are separate because what joins the components is narrow: a stream
that opens or fails, a row that is disabled, a token that validates. Each module
states its neighbours by exactly that, as a choice it must survive: in
`Sessions`, opening a stream succeeds or fails; in `DeviceLifecycle`, a token is
enabled or not; in `RouteStore`, the client writes its row at any time; in
`Client`, the server is its rows and its answers. `Notifications` is a
composition proper: the runner's workers are the senders of `Messages`, so a mail
server that hangs holds a worker, and with it Stop.

Correspondence, module by module:

**TunnelManager.** `current` is the map's entry for the device, `items` the
`DeviceConnection` objects, named by the connection that allocated them; `pc` is
where each goroutine is. An action that takes the mutex is one step (`Hello`,
`UnregisterControl`, `OpenStream`, ...); what the code does after unlocking is one
action per call: `CloseItem`, `DrainItem` (`closeDeviceItem` closes first the
connections, then empties the channel), `MarkRowsClosed`, `RecordRow`. The
channel of idle data connections is a set, since no property depends on which
connection is taken first. `CloseStaleRows` is the other writer of the rows, the
sweep of `closeStaleDeviceConnections` (at the start and by the offline cleaner),
which knows nothing of the registry. Any read, write or accept may fail at any
time.

**DeviceTokens.** A validation is `Begin` (reads the clock), `Lookup` (cache),
`ReadRow`, `CacheValidation`; an administrator's change and `Invalidate` are two
steps, as in the code. The cache maps a token to the time until which it is
accepted; the sweep and the eviction of excess entries are part of the insertion.

**DeviceLifecycle.** `dirty` is the registry's entry, `snap` and `stamp` what a
flush is writing, `settled` (auxiliary) up to when activity is known to be in
the row or given up. `Restart` is a crash at any step as well as the orderly
stop, which flushes once more but waits for no request; the next server begins
with `Booted`, `markBootStaleDevicesOffline`. `Register` and `Heartbeat` are
split at every point where another goroutine can run between their statements. A
server starts from any database its predecessor may have left (`Init`).

**Sessions.** One stage per statement of `handleConn` that another goroutine can
observe; the HTTP gateway's order differs (stream before row, permit released
before the stream is closed) and is kept. `TakeClosers`, `RunClosers` and
`UpdateRows` are `SessionService.Close` and the closing part of
`DeviceService.Delete`. `Block` is a copy that waits in a write to an end which
has stopped reading; its bridge does not return until `Unblock`.

**Forwarding.** Six channels (three connections, two directions), each with a
bounded number of buffers. `Bridge` of the gateway closes the whole connection it
wrote to, `bridge` of the client half-closes; what Close means depends on the
transport (`quic`).

**RouteStore.** `SaveMapping` ... `ChangeGroup` are the console's transactions;
`RequestReload` is the hook they call afterwards. `TakeToken`, `TimerFires`,
`DrainToken`, `Drained` are `Run`; `ReadMappings`, `ReadDevices`, `ReadPolicies`,
`Store` are `Reload`. The first reload of `startHTTPRuntime` runs before `Run`
starts, hence `Init` has the reloader at its first query. A mapping that is not
for HTTP is one that is off. `silent` records that the device's own registration
or heartbeat changed its row: the code requests no reload for it.

**Upgrade.** Files are sequences of bytes and a byte is the release it comes
from, so that a mixture of two releases is told from either. `stage` is where the
client's goroutine is; a crash (`Crash`) clears the process and keeps the disk.
A report and a heartbeat are read and written in separate steps on the server.

**TCPListeners.** `Save` is `BeginSave`, `CheckPort` and `WriteSave`; `Reload`
is `ReadSetting`, `ReadRows` and `Apply`, of which only the last runs under the
lock, and opens and closes listeners there. A reading is a choice among the
assignments the table allows, since rows with the same port are ordered by
nothing. The server may start with the setting off (`ListenersInit`), and then no
reloader is registered; a query of the setting that fails reads as "true"
(`misread`). A connection may be `stuck` in a write, as in `Sessions`. Auxiliary
variables remember the version of each reading, ports that could not be opened,
and mappings written after another took their port.

**AccessLog.** `worker` is where `run` is: its `select`, a flush, the drain
after the context is cancelled, the last flush. `stage` is where
`stopBackgroundServers` is. `ImplementsQueue` maps it to `BoundedQueue`: while a
batch is being written its entries are worked on; before that they still wait,
ahead of the queue, which is why up to `BatchSize - 1` more entries than
`QueueSize` may wait.

**NotificationRunner, Messages, Notifications.** `Submit` is atomic under the
mutex; an unstarted runner makes the caller run the task itself. A send record
is written in three steps (created or its count written back, mail sent, outcome
marked), each of which may fail; `overlapped` and `unclear` remember the two
reasons for which a mail may be doubled. `ImplementsQueue` maps the runner to
the same `BoundedQueue`.

**Client.** `pc` is where the main goroutine is between `run`,
`connectAndServeAuto` and the two ways of serving; each element of `loop` is a
heartbeat loop, which may outlive its tunnel by one request. `signal` and
`reported` are the two channels of one place. `SignalVPNRestart` compares and
sets the stamp under its lock; the three selects after the unlock are steps of
their own (`SendCommand`, `DrainChannel`, `ResendCommand`), between which the
other loop may run. The server is the set of rows it knows, the enabled token of
each, and the two columns of a restart request.

**Telemetry.** A handler of the server is `Post` (a heartbeat) or `Register`,
then `GrantSample`, the traffic transaction (`RecordTraffic`), and
`MarkPersisted` or `Forget`. `moved` and `base` tell how many bytes really
passed; the accounts are compared with them.

## 3. The runs

Every property is also run against a mutant: one mapped definition replaced by
the form a plausible bug would give it (a dropped check, a swapped order, a
missing reset). The mutated forms stand beside the originals in the modules, each
under a comment that calls it a seeded fault or a plausible bug, and are used by
nothing else. Every module but the abstract `BoundedQueue` states a type
invariant; all of them are proved (section 6) and none is spent on a run.

| Run | What it checks | Distinct states |
|---|---|---|
| `tunnel_registry` | `CurrentNotClosed`, `RetiredTunnelsClosed`, `DataConnAccounted`, `RowsFollowRegistry`, `TunnelEndsForAReason` | 1,484,000 |
| `device_tokens` | `StaleBound` | 633,000 |
| `device_lifecycle` | `NoActivityLost`, `DisabledSticks`, `OfflineMeansSilent` | 1,533,000 |
| `sessions` | `PermitsConserved`, `RunningSessionsReachable`, `RowsTellTheTruth`, `ForcedSessionsEnd` (liveness) | 551,000 |
| `forwarding` | `DownloadComplete`, `BridgesEnd` (liveness) | 157,000 |
| `route_store` | `StaleIsNoticed`, `RoutesConverge` (liveness) | 617,000 |
| `upgrade` | `HashFollowsFile`, `InstalledIsWhole`, `FinalSticks`, `EveryTaskEnds` (liveness) | 238,000 |
| `tcp_listeners` | `StaleIsExplained`, `SharedPortWasRaced`, `StopEnds` (liveness) | 749,000 |
| `access_log` | `RefusedAfterTimeout`, `StopDrains`, `ImplementsQueue` (refinement), `AcceptedSettles` (liveness) | 427,000 |
| `notifications` | `StopServesAll`, `DuplicateIsExplained`, `RecordsTellTheTruth`, `ImplementsQueue` (refinement), `AcceptedIsServed` (liveness) | 619,000 |
| `client` | `IdentitySurvives`, `TokenLossIsExplained`, `RestartNotForgotten`, `RestartsOnce`, `Reconnects` (liveness) | 604,000 |
| `telemetry` | `CountedBytesPassed`, `SamplesAreSpaced` | 5,667,000 |

What the runs show:

- **tunnel_registry**: six plans of connections (`MCRolePlans`): a tunnel
  replaced by one on the other transport, legacy clients, data connections that
  arrive late or find no tunnel, with an opener, a CloseDevice and a Stop. The
  registered tunnel is never cut by somebody else's cleanup, and nothing retired
  is left open; a data connection the server acknowledged is with an opener, in a
  channel somebody answers for, or closed. The code does not order the updates of
  the table of connections: while two overlap the table may be wrong, and the
  next registration or teardown that meets no other puts it right. The sweep of
  stale rows is the only other thing that parts the table from the registry.
- **device_tokens**: a validation may store what it read before a revocation
  after the clearing of the cache. That is the only way a revoked token stays in
  the cache, and it stays for less than the TTL.
- **device_lifecycle**: a flush acknowledges exactly what it wrote, and what a
  crash loses is counted as given up, never as written. The cleaner trusts the
  database only after a flush; the exceptions (`OfflineMeansSilent`) are the
  writers that put an older `last_seen_time` back.
- **sessions**: permits balance however a session ends, and a session the
  administrator closed ends and is recorded as forced, unless a blocked copy
  holds its bridge for good. A close that comes between the row and the registration misses the session (`RowsTellTheTruth`
  excepts exactly that window).
- **forwarding**: over QUIC a download is complete even if the user has shut its
  sending side; over TCP it is if the user has not. Both bridges end, if the
  ends read on; over QUIC the gateway's does.
- **route_store**: coalescing and reading three tables one after the other lose
  no change of the console. Stale routes have one of three causes: a reload
  still to come, a reload that failed and is not retried, a write of the
  device's own that requests none.
- **upgrade**: one task with a fault, a crash and a replaced package, any two of
  them. A final status is overwritten only by a handler that had read the task
  before. After a crash between the two renames of `main.go:1418-1423` there is
  no binary to start; nothing in the code repairs that, and `EveryTaskEnds`
  excepts it.
- **tcp_listeners**: once no reload is under way, a port that does not serve
  what the table says has one of these causes: another process had the port; an
  older reading was applied after a newer one, or took a failed query of the
  setting for "true"; a device was deleted (which asks for no reload) or a reload
  failed; or the server started with the setting off, and listens on nothing. Two
  mappings share a port only after a race between two saves. Stop leaves no
  listener, whatever reloads were under way, and ends every connection but one
  whose copy is blocked, for which it waits.
- **access_log**: the writer is a bounded queue. An entry finds no writer only
  if the gateway gave up on a handler still running, and when Stop returns in
  time everything accepted has been settled. A 101 answer has no entry
  (`SwitchProtocols`).
- **notifications**: the runner is a bounded queue too, oldest task first, and
  when Stop returns in time no task waits and no worker is at one. A recipient
  gets a notice twice only if two threads worked on its record at once, or if the
  outcome of a delivery did not reach the record; the limit of retries holds
  without such an overlap.
- **client**: however it crashes, and whatever gets lost, a machine registers a
  second device only after its state file was spoiled; it falls back to the
  register token only after a refusal; after a restart request a tunnel has ended,
  a restart is under way, or the request was lost in one of the ways
  `LosesCommand` names, although two loops may leave the older of two commands in
  the channel; one command ends one tunnel; and a client that can be served ends
  up served.
- **telemetry**: the totals never exceed what passed, and equal it while no
  counter started over, unless a sample was stored after a later one. Two
  samples come too close only after one handler overtook another.

In most modules the environment may stop asking and the bounds of the counters
end the behaviours, so a state without a successor is no deadlock there
(`CHECK_DEADLOCK FALSE`). `client` and `telemetry` are checked for deadlock.

## 4. Fairness

Liveness is stated only where the code's own steps make something happen.

- `Sessions`: weak fairness of each handler's steps and of an administrator's
  request once made. Opening a stream has a timeout of 15 seconds, so it ends. A
  bridge whose stream was closed under it returns, with the idle deadline of its
  reads (30 minutes) at the latest, unless a copy is blocked in a write: nothing
  is assumed of a blocked copy, and `ForcedSessionsEnd` excepts a session that
  stays so. Nothing makes a user connect or leave.
- `Forwarding`: weak fairness of the copiers, of the return of a bridge and of
  the idle deadline. `FairSpec` adds ends that read what they are sent and a
  service that closes after the user: without it a write to an end that stopped
  reading holds its bridge for ever (section 7).
- `RouteStore`: weak fairness of the reloader (its goroutine runs as long as the
  server does, and its queries return) and of the request after a commit. None
  for administrators, devices, failures, restarts.
- `Upgrade`: weak fairness of the client's goroutine while its process runs, of
  the supervisor (systemd restarts the client if its binary is there), of the
  heartbeats and reports, and of the expiry of a lease. None for faults, crashes
  and administrators.
- `TCPListeners`: weak fairness of each reload once started, of Stop's own steps
  and of handlers whose context was cancelled, but not of those blocked in a
  write: closing the client's side does not release them, and Stop waits for
  them without a deadline. None for administrators, other processes, or users
  who connect.
- `AccessLog`: weak fairness of the writer's goroutine; an INSERT returns,
  though it may fail. None for requests or for the shutdown.
- `Notifications`: weak fairness of each worker. `Hang` disables it: a mail
  server that says nothing after the connection was made holds its worker,
  because only dialling has a timeout.
- `Client`: weak fairness of the main goroutine, of the loop that dials data
  connections, and of each heartbeat loop. The network owes nothing:
  `Reconnects` assumes that from some time on it lets the client through.

The other modules state safety only and have no fairness.

## 5. Bounds

Bounds stand in guards, never in state constraints, so no behaviour is cut off
in the middle of a step.

| Run | Bounds | Why they are enough |
|---|---|---|
| `tunnel_registry` | one device, four connections, one opener (openers share nothing but the channel), channel of one | devices do not share entries; two control connections replace each other, over both transports and with data connections of either; a channel of one is full and empty |
| `device_tokens` | one validator, two administrators, two tokens, two rows, clock to 3, TTL 2, cache of one | validations meet only in the cache, whose operations are atomic; an entry can outlive its revocation and reach its expiry |
| `device_lifecycle` | two requests, two calls, one request of the administrator, clock to 3, timeout and delay 1 | each pair of actors overlaps; every deadline can pass before, with or after each step |
| `sessions` | an SSH and an HTTP session of one device, two administrators, two requests, one crash, one permit, one hit per window | the TCP gateway runs the SSH gateway's steps but for the answer to the client; two sessions compete for the permit, two requests meet at one session, and a deletion meets a session being opened |
| `forwarding` | channels of one buffer, two buffers each way | every writer blocks on every reader |
| `route_store` | two mappings, one host, one device, two groups, two administrators, three changes, one failure, one restart | two changes can overlap one reload with a third after it |
| `upgrade` | one administrator, a client and an application release of two bytes, one task, two download attempts, one fault, one crash, one swap, any two of them | a download breaks in its middle; a lease expires and the task is handed out again |
| `tcp_listeners` | two mappings of two devices, two ports of which one is contended, two reloads at a time, two administrators, one connection, two requests, the setting on or off at the start | two reloads cross in either order; two saves race for a port |
| `access_log` | four requests, a queue of two, batches of two, three attempts | the queue is full while a batch is written; the drain takes several batches |
| `notifications` | three notices of which one has a recipient, one worker, a queue of two, a console request that retries the record, one retry, two faults or changes of settings | two tasks wait together, and a third finds the queue full behind a busy worker; a retry and the first send of one record overlap (two retries at once are in the proofs only) |
| `client` | two heartbeat loops, two sncodes, two tokens, two faults, per transport; two restart requests with "tcp" and -skipRegister, else one | two commands meet in the channel; an old loop beside the new tunnel's; a second fault while the first is being repaired |
| `telemetry` | two handlers at once, clock to 2, interval 1, two bytes, one restart of the device | handlers overtake each other around each statement |

Symmetry is used where only invariants and action properties are checked and the
actors are interchangeable (clients, administrators, rows, handlers).

Further abstractions: the clock is monotone and common to all; database
statements succeed unless an action says otherwise (`FlushFails`, `ReloadFails`,
the update of `last_used_at` in a validation); identifiers are model values.

## 6. Proofs

TLAPS proves the following for every value of the constants, from the named
assumptions on them in each module: finiteness and disjointness of sets of
actors, natural numbers as limits, and null values outside the values they stand
beside (`NullsAssumption` of `Notifications`; `NoFileAssumption` of `Upgrade`: no
file is not a sequence of bytes; `NoSampleAssumption` of `Telemetry`; `None` in
`ListenersAssumption`). The limits include every bound of section 5: the theorems
hold for any of them. Where a limit must not be zero the code's configuration
excludes it or a buffer would hold nothing (`HeartbeatFail` and `DataChannels` in
`ClientAssumption`, `Capacity` in `ForwardingAssumption`, the least port in
`ListenersAssumption`); Telemetry's interval may be. `SharedAssumption` of `Notifications` says
how the constants of the two composed modules meet: the tasks are the notices,
and those who send are the workers and the console's requests. TLC evaluates all
of them on the runs.

| Module | Theorem | Property |
|---|---|---|
| `TunnelManagerProofs` | `TypeCorrect`, `RegisteredTunnelUntouched`, `NoStrandedConnection`, `DataConnsAccountedFor`, `TunnelsEndForAReason`, `RowsAreTheTunnel` | `TypeOK`, `CurrentNotClosed`, `RetiredTunnelsClosed`, `DataConnAccounted`, `TunnelEndsForAReason` (action property), `RowsFollowRegistry` |
| `DeviceTokensProofs` | `TypeCorrect`, `RevokedTokenBounded`, `ExpiredTokenRefused`, `RevocationClears` | `TypeOK`, `StaleBound`, `ExpiryRespected`, `RevocationReachesCache` |
| `DeviceLifecycleProofs` | `TypeCorrect`, `ActivityKept`, `OfflineIsSilent`, `ReportedIsSilent`, `DisabledStays` | `TypeOK`, `NoActivityLost`, `OfflineMeansSilent`, `OfflineEventMeansSilent`, `DisabledSticks` |
| `SessionsProofs` | `TypeCorrect`, `PermitsGivenBack`, `LimitsRespected`, `SessionsStayReachable`, `RowsAreTruthful` | `TypeOK`, `PermitsConserved`, `StreamsWithinLimits`, `RunningSessionsReachable`, `RowsTellTheTruth` |
| `RouteStoreProofs` | `TypeCorrect`, `NoChangeForgotten`, `AnswersAgree` | `TypeOK`, `StaleIsNoticed`, `CachedAnswersAgree` |
| `AccessLogProofs` | `WithinBounds`, `RefusalsExplained`, `StopLeavesNothing`, `NothingMislaid`, `LogImplementsQueue` | `TypeOK`, `RefusedAfterTimeout`, `StopDrains`, `Held`, `ImplementsQueue` (refinement) |
| `NotificationsProofs` | `WithinBounds`, `StopEmptiesQueue`, `DuplicatesExplained`, `RecordsTruthful`, `RunnerImplementsQueue` | `TypeOK`, `StopServesAll`, `DuplicateIsExplained`, `RecordsTellTheTruth`, `ImplementsQueue` (refinement) |
| `SessionsProofs` (`Forwarding`) | `ForwardingInvariant`, `ForwardingDownloadComplete` | the invariant with `ForwardingTypeOK`, `DownloadComplete` |
| `AccessLogProofs` (`TCPListeners`) | `ListenersInvariant`, `StalenessExplained`, `SharingExplained`, `ListenersStayClosed` | the invariant with `ListenersTypeOK`, `StaleIsExplained`, `SharedPortWasRaced`, `NothingComesBack` |
| `TunnelManagerProofs` (`Telemetry`) | `TelemetryInvariant`, `TrafficIsCounted`, `SamplesKeepDistance` | the invariant with `TelemetryTypeOK`, `CountedBytesPassed`, `SamplesAreSpaced` |
| `RouteStoreProofs` (`Client`) | `ClientInvariant`, `IdentityKept`, `TokenLossExplained`, `RestartIsSomewhere`, `RequestsEndOneTunnel` | the invariant with `ClientTypeOK`, `IdentitySurvives`, `TokenLossIsExplained`, `RestartNotForgotten`, `RestartsOnce` |
| `UpgradeProofs` | `WithinBounds`, `HashIsTheFiles`, `OnlyWholeFilesRun`, `NoFalseSuccess`, `FinishedTasksStick` | `TypeOK`, `HashFollowsFile`, `InstalledIsWhole`, `SuccessMeansInstalled` (not run), `FinalSticks` (action property) |

Each module also states the invariant its theorems rest on as a theorem of its
own (`Invariance`, `TruthInvariance`, `RunnerInvariance`, and the four listed as
such). The inductive
invariants, and why the properties need them:

- **TunnelManager** (`IInv`): ownership. `CurrentNotClosed` alone is not
  inductive, since an arbitrary goroutine could be about to close the current
  item. The strengthening says that a connection that has not said hello is
  unknown, that the members of items are disjoint, that a goroutine's victim has
  left the map for good (an item is never registered again), and that what an
  opener or a handler holds belongs to no item. `TunnelsEndForAReason` is one
  step from it. The rows need a second invariant, `RowsInv`: as long as the last
  update met no other there is at most one goroutine between the map and the rows,
  what it is about to write is what the map says, and without it the two agree
  already, but for what the sweep disabled (`RowsFollow`). The data connections
  need a third, `DataInv`: their handlers are gone after the hello, and an opener
  holds one only from the receive to the end of its attempt or session.
- **DeviceTokens** (`IInv`): a time bound is carried from the row a validation
  read, to the value it is about to cache, to the cache, to the acceptances the
  cache gives. Each hop needs its conjunct.
- **DeviceLifecycle** (`IInv`): what a flush or a heartbeat is about to
  acknowledge is settled already (`FlushSettles`, `HeartbeatSettles`), and what
  the registry knew when the cleaner's round began is settled when the cleaner
  looks at the rows (`RoundSettles`). The action properties follow from it.
- **Sessions** (`Inductive`, `Truth`): the counters equal the cardinality of the
  set of holders, which needs where a stream can be open at all: a handler that
  released its permit with an open stream would go on to close it as the HTTP
  gateway does. The rows need `Away`, which survives every later step: an
  administrator came too early for the session, or it has registered its closers
  and, if it still carries bytes, somebody is closing it. Rows are closed only by
  a finalizer or for sessions that are away. `ForcedKnown` follows a forced
  close from the marker to the reason the finalizer takes from it to the row.
- **RouteStore** (`Inv`): what the reloader has read so far is what the tables
  hold, unless a request is pending or, for the devices' table, a client has
  written.
- **AccessLog** (`Inductive`): an accepted entry is in the channel, in the batch
  or settled (`Held`), and what the writer's goroutine holds depends on where it
  is (`WorkerHolds`). The argument for Stop is about the lock: after Stop has set
  `stopping` under it no handler can be between its check and its send
  (`ShutdownOrder`), so the queue the goroutine found empty stays empty.
- **Notifications** (`RunnerInductive`, `MessagesInductive`): a task is queued
  once and run by one thread, and the records of a notice are created by that
  thread alone. Each thread knows something of the record it works on as long as
  nobody else does (`RecordKnown`); the second thread to arrive sets `overlapped`
  and the knowledge is given up, which is exactly what the property allows.
- **Upgrade** (`Inductive`): the hash is never longer than the partial file and
  is the file's when it is as long (`Follows`), because a byte that a failing
  write left in the file can never be made up for. Hence what passes the size and
  the checksum is the whole release, whatever was resumed; `Ready` says where
  that release is at each later stage. On the server every report is `Sound`: a
  success it tells of has happened, and if it has read the row of a task that was
  finished since, it is marked as overtaken; so is the heartbeat (`PollSound`).

- **Forwarding** (`ForwardingInductive`): nothing in `DownloadComplete` says why
  the bytes are not still on their way when the user reads the end, nor why none
  was lost. Both follow from the order in which the ends of the copies close the
  connections. While the session is `Calm` (nobody cut it, and either it is on
  QUIC and the service did not close early, or the user has not shut its side
  and no upload was lost), the user's connection ends only after the gateway's copier has
  read the end of the stream, and the stream only after the client's has read
  the end of the service's (`DownChain`). Over QUIC the user may shut its side
  first; `UpChain` is the same order for the way up, and says that only then
  does the client's bridge shut its side of the service's connection.
- **TCPListeners** (`ListenersInductive`): reloads overlap and apply in any
  order, so neither what was applied last nor what was read last is what the
  table holds. Without a registered reloader nothing is ever read or applied
  (`IdleUnlessRegistered`). Otherwise, what can be said of each is its age. A reading that has seen
  every change is a reading of the table as it is (`ReadIsTrue`); if no change
  is silent, the last one was applied or has a reload behind it that will see it
  (`ChangeIsFollowed`); what was applied last is right if nothing changed since
  (`AppliedIsTrue`). What is stale and none of these is then stale for one of the
  named reasons. For the ports, what a save found when it looked still holds when it
  writes, or it is marked as late (`CheckHolds`).
- **Telemetry** (`TelemetryInductive`): the accounts go by the difference of two
  samples, whichever handlers they came through. Any two samples in play, also
  those no handler has stored yet, are readings of one pair of counters in order
  (`SamplesAgree`). The sampler forgets: what it remembers may be what a failed
  handler gave back or a slow one set, and `GrantsAreSpaced` is what is left of
  its memory while no handler was overtaken.
- **Client** (`ClientInductive`): the identity holds because whoever may write
  the state file next, the main goroutine or a loop of a tunnel long ended,
  writes the sncode the file has (`OneIdentity`). For a restart request the
  inductive part is the order of the stamps down from the server to the channels
  (`StampsInOrder`) and that each command is in one place: with a loop that
  passes it on, in the channel, reported, or used up by a tunnel that ended
  (`OneCommand`). Which of two commands survives in the channel is open, since
  the loops fill and empty it without the lock: the older may replace the newer.
  What is proved is what an administrator can rely on, that one of them is left
  to end the tunnel that is up, and that none ends two.

The two refinements are proved as TLC checks them, from the same invariants: the
initial state of the writer (of the runner) is one of `BoundedQueue`, and every
step is a step of it or a stutter. The step to watch is the flush: the batch
turns from waiting to working as a whole, although its entries left the channel
one by one.

The invariants from `Notifications` on, that of `AccessLog`, `RowsInv` and
`Truth` were checked by TLC on the instances of section 3 before they were proved.

Some of these properties are proved and not run: `ExpiryRespected`,
`RevocationReachesCache`, `OfflineEventMeansSilent`, `StreamsWithinLimits`,
`CachedAnswersAgree`, `SuccessMeansInstalled`, `Held`, `NothingComesBack` (after Stop no reload opens a
listener again: the safety half of `StopEnds`) and the type invariants.

Only model-checked:

- all liveness properties (proof rules for fairness and ENABLED are not
  supported by the installed prover): `ForcedSessionsEnd`, `BridgesEnd`,
  `RoutesConverge`, `EveryTaskEnds`, `StopEnds`, `AcceptedSettles`,
  `AcceptedIsServed`, `Reconnects`.

Every invariant, every action property and both refinements that the runs check
are proved.

No module proved about has a RECURSIVE operator, and no proof uses induction over
data.

## 7. Where code and documents differ

Met while modelling. The models follow the code; the properties are stated so
that they hold of it, and these are the places where a comment, a document or a
name promises more.

- `streambridge/bridge.go:12-14` says half-close semantics are preserved. Over a
  TCP data connection `Bridge` closes the whole connection it wrote to, so a
  user that shuts its sending side loses the answer still on its way. Over QUIC,
  Close ends one direction only. `DownloadComplete` has both cases.
- `streambridge/bridge.go:36-37` says read and write deadlines are refreshed.
  The writer passed is a `countingWriter`, which has no `SetWriteDeadline`; a
  write to an end that stopped reading never times out and the session keeps its
  permit. `BridgesEnd` assumes ends that read; `ForcedSessionsEnd` and `StopEnds`
  except the blocked copy. `stopTCPMappingServer` is the first step of
  `stopBackgroundServers` and waits for its handlers without a deadline, so one
  such copy holds up the whole shutdown.
- `startTCPMappingServer` (`inits.go:585-589`) returns before it registers the
  reloader when the setting `tcp_mapping_enabled` is off at the start. Switching it
  on in the console then opens no listener until the server is restarted
  (`StaleIsExplained` names it).
- The setting is read with a default of "true": a failed query opens the listeners
  of a server whose setting is off (`misread`).
- `closeStaleDeviceConnections` disables the rows of every device with an old
  `last_active_time`, also of one whose tunnel is registered; the row stays
  disabled until the device registers its next tunnel (`RowsFollowRegistry`
  excepts it).
- When the last QUIC data connection of an item without a control connection
  leaves, the item is dropped from the map with the TCP data connections that
  wait in its channel, which nobody closes (`DataConnAccounted` excepts it).
- `signalVPNRestart` promises the newest command to the channel, but the channel
  is filled and emptied after the lock is released (`main.go:1282-1298`): of two
  loops the slower may replace the newer command by the older one. The tunnel is
  rebuilt all the same.
- The body of a 101 answer is wrapped in `countingResponseBody`
  (`httpgateway/server.go:382`), which cannot be written to, so ReverseProxy gives
  up on it without closing it: the request is not logged (`SwitchProtocols`), and
  the stream and its permit stay with a connection nobody reads, until an
  administrator closes the session or the process ends.
- `main.go:1545-1546` says the completed target of an interrupted upgrade is
  moved into the resumable slot. All client releases share one target path, so
  after a crash the slot of one release can receive another's bytes. The upgrade
  then fails its checksum and is reported as failed; nothing wrong is installed
  (`InstalledIsWhole`).
- `README.md:151` says a device that registers again with the global token loses
  its token and its activation. The code (`device_service.go:277`) does so only
  if the device has no enabled token.
- `DeviceService.Delete` removes the device's TCP mappings but, unlike every
  other change of that table, starts no reload of the listeners, which stay open
  until the next one (`StaleIsExplained` names it).
- `RecordHeartbeatSample` takes a sample that is older than the one stored for a
  reset and counts the bytes between the two again with the next one
  (`CountedBytesPassed` excepts it). It takes two requests of one device to
  overtake each other, or a registration with fresh counters that is followed by
  a heartbeat with the cached older snapshot.
- `RetrySendRecord` accepts a record that is pending, also while its first send
  is still running: the recipient then gets the mail twice
  (`DuplicateIsExplained`).

## 8. What is not modelled

Left out for good: the console's static files, packaging, routers and decoding of
requests (a call to one service each), lists, statistics and dashboards (read-only
queries), maintenance (deletion by age in single statements), rendering and
sending of mail, TLS and SSH cryptography, the normalisation of host names,
archive formats, logging. Inside the modelled parts, `PROJECT.json` says under
"components" what each leaves out.

In particular: SSH aliases and the SSH entry (lookups and string formatting), the
event hub and its websockets, which events cause a notice, the division of
traffic into days, and the backoff's times.

Two overlapping calls of `os.WriteFile` on the client's state file are one after
the other in `Client`; a file they would leave mixed counts with the torn ones.
Two timing facts are below the models' resolution: how long a stream waits for a
data connection of a tunnel that was replaced (at most its 15 seconds), and that
an idle deadline is kept per direction, so that a long one-way transfer may be
cut.

## 9. The plan

Done: tunnels, tokens, lifecycle with restarts, sessions, forwarding, upgrades,
routes, TCP listeners, access log, notifications, the client's loop, telemetry;
the bounded queue as an abstract specification with two implementations, both
proved; proofs of every safety property the runs check.

Next:

1. An atomic tunnel registry (one tunnel per device, replaced in one step) as an
   abstract specification, implemented by `TunnelManager`: the invariant `IInv`
   has what the mapping needs.
2. A token oracle of bounded staleness implemented by `DeviceTokens`, as the
   server of `Client`.
3. The deferred offline event and its notice as one composition of
   `DeviceLifecycle` and `Notifications`.
