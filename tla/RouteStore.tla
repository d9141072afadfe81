----------------------------- MODULE RouteStore -----------------------------
(***************************************************************************)
(* The routes of the HTTP gateway: an in-memory snapshot (route_store.go)  *)
(* built from three tables the console and the devices write, and rebuilt  *)
(* on request.  A request for a rebuild is a token in a channel of one     *)
(* place, sent after the change is committed; the reloader waits 100 ms,   *)
(* empties the channel, reads the tables one after the other and stores    *)
(* the new snapshot.  Until a first snapshot is there the gateway asks the *)
(* tables itself (lookup.go).                                              *)
(*                                                                         *)
(* A device's registration and heartbeat write its row too, and request no *)
(* rebuild.  Several administrators, one client's request, failing queries *)
(* and restarts of the server run against the reloader.                    *)
(*                                                                         *)
(* A mapping that is not for HTTP is one that is off.  The columns that    *)
(* decide neither the route nor the access are left out.                   *)
(***************************************************************************)
EXTENDS Naturals

CONSTANTS
  Mappings,     \* the guids of navmesh_port_mappings
  Hosts,        \* public hosts
  Devices, Groups,
  Admins,       \* requests of the console
  Global,       \* the target of a policy that applies everywhere
  NoRow,        \* no such row, no snapshot, no request
  MaxChanges,   \* bound: changes of the console and of the client
  MaxFailures,  \* bound: reloads that fail
  MaxRestarts   \* bound: restarts of the server

Targets == {Global} \cup Devices \cup Groups \cup Mappings
Row == [on : BOOLEAN, group : Groups]
MappingRow == [on : BOOLEAN, host : Hosts, device : Devices]
Route == [mapping : Mappings, host : Hosts, device : Devices, allowed : BOOLEAN]

ASSUME RowAssumption ==
  /\ NoRow \notin Row \cup MappingRow
  /\ NoRow \notin [device : Devices, row : Row \cup {NoRow}]
ASSUME BoundAssumption ==
  MaxChanges \in Nat /\ MaxFailures \in Nat /\ MaxRestarts \in Nat

VARIABLES
  \* the database
  mappings,  \* mapping -> its row
  devices,   \* device -> its row
  denying,   \* targets of the enabled policies that deny HTTP
  \* the server
  admin,     \* "idle", or "trigger": committed, the reload not yet requested
  client,    \* the row a registration or a heartbeat has read
  token,     \* reloadCh holds a token
  reloader,  \* where Run is
  read,      \* the tables as Reload has read them
  snapshot,  \* current
  \* for the properties and the bounds
  failed,    \* the last Reload failed
  silent,    \* the client has written its row since Reload last read the devices
  budget     \* changes, failures and restarts so far

database == <<mappings, devices, denying>>
vars == <<database, admin, client, token, reloader, read, snapshot, failed, silent, budget>>

Within(kind) ==
  /\ budget[kind] < [change |-> MaxChanges, failure |-> MaxFailures,
                     restart |-> MaxRestarts][kind]
  /\ budget' = [budget EXCEPT ![kind] = @ + 1]

-----------------------------------------------------------------------------
(* What the tables mean *)

\* routeAllowsHTTP: every policy that applies allows HTTP.
Allowed(d, group, g, denied) == {Global, d, group, g} \cap denied = {}

\* RouteStore.Reload: a route for every enabled mapping of a device that is
\* not disabled.
Routes(m, d, p) ==
  {[mapping |-> g, host |-> m[g].host, device |-> m[g].device,
    allowed |-> Allowed(m[g].device, d[m[g].device].group, g, p)] :
     g \in {x \in Mappings : /\ m[x] # NoRow /\ m[x].on
                             /\ d[m[x].device] # NoRow /\ d[m[x].device].on}}

\* ServeHTTP with a snapshot: what a request for host is answered.
Cached(routes, host) == {<<r.mapping, r.device, r.allowed>> : r \in {x \in routes : x.host = host}}

\* AccessPolicyService.IsAllowed: no policy selected by one of the four clauses
\* of its query denies HTTP.
IsAllowed(d, g) ==
  /\ Global \notin denying
  /\ d \notin denying
  /\ devices[d].group \notin denying
  /\ g \notin denying

\* findMapping and IsAllowed: the answer from the tables.
Direct(host) ==
  {<<g, mappings[g].device, IsAllowed(mappings[g].device, g)>> :
     g \in {x \in Mappings :
              /\ mappings[x] # NoRow /\ mappings[x].host = host /\ mappings[x].on
              /\ devices[mappings[x].device] # NoRow /\ devices[mappings[x].device].on}}

-----------------------------------------------------------------------------
TypeOK ==
  /\ mappings \in [Mappings -> MappingRow \cup {NoRow}]
  /\ devices \in [Devices -> Row \cup {NoRow}]
  /\ denying \subseteq Targets
  /\ admin \in [Admins -> {"idle", "trigger"}]
  /\ client \in [device : Devices, row : Row \cup {NoRow}] \cup {NoRow}
  /\ token \in BOOLEAN
  /\ reloader \in {"idle", "wait", "drain", "mappings", "devices", "policies", "store"}
  /\ read \in [m : [Mappings -> MappingRow \cup {NoRow}],
               d : [Devices -> Row \cup {NoRow}], p : SUBSET Targets]
  /\ snapshot = NoRow \/ snapshot \subseteq Route
  /\ failed \in BOOLEAN /\ silent \in BOOLEAN
  /\ budget \in [change : 0 .. MaxChanges, failure : 0 .. MaxFailures,
                 restart : 0 .. MaxRestarts]

Nothing == [m |-> [g \in Mappings |-> NoRow], d |-> [d \in Devices |-> NoRow], p |-> {}]

\* startHTTPRuntime: the hook is registered, then the first Reload runs.
Init ==
  /\ mappings = [g \in Mappings |-> NoRow]
  /\ devices \in [Devices -> {[on |-> TRUE, group |-> g] : g \in Groups}]
  /\ denying = {}
  /\ admin = [a \in Admins |-> "idle"] /\ client = NoRow
  /\ token = FALSE /\ reloader = "mappings" /\ read = Nothing /\ snapshot = NoRow
  /\ failed = FALSE /\ silent = FALSE
  /\ budget = [change |-> 0, failure |-> 0, restart |-> 0]

-----------------------------------------------------------------------------
(* The console: a change is committed, then the reload is requested *)

Committed(a) ==
  /\ admin[a] = "idle" /\ Within("change")
  /\ admin' = [admin EXCEPT ![a] = "trigger"]
  /\ UNCHANGED <<client, token, reloader, read, snapshot, failed, silent>>

\* ensurePublicHostAvailableOnDB
HostFree(host, g) ==
  \A x \in Mappings \ {g} : mappings[x] # NoRow => mappings[x].host # host

\* MappingService.Save, one transaction.
SaveMapping(a, g, row) ==
  /\ devices[row.device] # NoRow /\ devices[row.device].on
  /\ HostFree(row.host, g)
  /\ mappings' = [mappings EXCEPT ![g] = row]
  /\ Committed(a) /\ UNCHANGED <<devices, denying>>

\* MappingService.Disable
DisableMapping(a, g) ==
  /\ mappings[g] # NoRow
  /\ mappings' = [mappings EXCEPT ![g].on = FALSE]
  /\ Committed(a) /\ UNCHANGED <<devices, denying>>

\* AccessPolicyService.Save
SavePolicy(a, t) ==
  /\ denying' \in {denying \cup {t}, denying \ {t}}
  /\ Committed(a) /\ UNCHANGED <<mappings, devices>>

\* AccessPolicyService.Disable
DisablePolicy(a, t) ==
  /\ t \in denying /\ denying' = denying \ {t}
  /\ Committed(a) /\ UNCHANGED <<mappings, devices>>

\* DeviceService.Disable, DeviceService.Enable
SetDeviceStatus(a, d, on) ==
  /\ devices[d] # NoRow
  /\ devices' = [devices EXCEPT ![d].on = on]
  /\ Committed(a) /\ UNCHANGED <<mappings, denying>>

\* GroupService.AssignDevice, DeviceService.UpdateProfile
AssignDevice(a, d, group) ==
  /\ devices[d] # NoRow
  /\ devices' = [devices EXCEPT ![d].group = group]
  /\ Committed(a) /\ UNCHANGED <<mappings, denying>>

\* DeviceService.Delete: the device and its mappings, in one transaction.
DeleteDevice(a, d) ==
  /\ devices[d] # NoRow
  /\ devices' = [devices EXCEPT ![d] = NoRow]
  /\ mappings' = [g \in Mappings |->
       IF mappings[g] # NoRow /\ mappings[g].device = d THEN NoRow ELSE mappings[g]]
  /\ Committed(a) /\ UNCHANGED denying

\* GroupService.Save, Disable and Delete change nothing routes depend on.
ChangeGroup(a) == Committed(a) /\ UNCHANGED database

\* RouteStore.RequestReload: nothing to do when a token is there.
RequestReload(a) ==
  /\ admin[a] = "trigger"
  /\ admin' = [admin EXCEPT ![a] = "idle"] /\ token' = TRUE
  /\ UNCHANGED <<database, client, reloader, read, snapshot, failed, silent, budget>>

-----------------------------------------------------------------------------
(* The client: Register and Heartbeat read the device's row and write it *)

ClientReads(d) ==
  /\ client = NoRow /\ Within("change")
  /\ client' = [device |-> d, row |-> devices[d]]
  /\ UNCHANGED <<database, admin, token, reloader, read, snapshot, failed, silent>>

Written(row) ==
  /\ devices' = [devices EXCEPT ![client.device] = row]
  /\ silent' = (silent \/ row # devices[client.device])
  /\ client' = NoRow
  /\ UNCHANGED <<mappings, denying, admin, token, reloader, read, snapshot, failed, budget>>

\* Register saves every column.  The device's own token puts it online, the
\* registration token leaves its status; a device without a row gets one.
Register ==
  /\ client # NoRow
  /\ IF client.row = NoRow
     THEN \E g \in Groups : Written([on |-> TRUE, group |-> g])
     ELSE \E on \in {client.row.on, TRUE} : Written([client.row EXCEPT !.on = on])

\* Heartbeat of a device it read as enabled.
Heartbeat ==
  /\ client # NoRow /\ client.row # NoRow /\ client.row.on
  /\ Written(IF devices[client.device] = NoRow THEN NoRow
             ELSE [devices[client.device] EXCEPT !.on = TRUE])

-----------------------------------------------------------------------------
(* RouteStore.Run and RouteStore.Reload *)

Go(from, to) == reloader = from /\ reloader' = to
ReloaderOnly == UNCHANGED <<database, admin, client, budget>>

\* The token starts the timer.
TakeToken ==
  /\ Go("idle", "wait") /\ token /\ token' = FALSE
  /\ ReloaderOnly /\ UNCHANGED <<read, snapshot, failed, silent>>

TimerFires ==
  /\ Go("wait", "drain")
  /\ ReloaderOnly /\ UNCHANGED <<token, read, snapshot, failed, silent>>

DrainToken ==
  /\ Go("drain", "drain") /\ token /\ token' = FALSE
  /\ ReloaderOnly /\ UNCHANGED <<read, snapshot, failed, silent>>

\* Seeded fault: without a second token there is no reload.
DrainedGivesUp ==
  /\ Go("drain", "idle") /\ ~token
  /\ ReloaderOnly /\ UNCHANGED <<token, read, snapshot, failed, silent>>

Drained ==
  /\ Go("drain", "mappings") /\ ~token
  /\ ReloaderOnly /\ UNCHANGED <<token, read, snapshot, failed, silent>>

ReadMappings ==
  /\ Go("mappings", "devices") /\ read' = [read EXCEPT !.m = mappings]
  /\ ReloaderOnly /\ UNCHANGED <<token, snapshot, failed, silent>>

ReadDevices ==
  /\ Go("devices", "policies") /\ read' = [read EXCEPT !.d = devices] /\ silent' = FALSE
  /\ ReloaderOnly /\ UNCHANGED <<token, snapshot, failed>>

ReadPolicies ==
  /\ Go("policies", "store") /\ read' = [read EXCEPT !.p = denying]
  /\ ReloaderOnly /\ UNCHANGED <<token, snapshot, failed, silent>>

\* Seeded fault: the channel is emptied after the reload, not before.
StoreAndDrain ==
  /\ Go("store", "idle") /\ snapshot' = Routes(read.m, read.d, read.p)
  /\ token' = FALSE /\ failed' = FALSE /\ read' = Nothing
  /\ ReloaderOnly /\ UNCHANGED silent

Store ==
  /\ Go("store", "idle") /\ snapshot' = Routes(read.m, read.d, read.p)
  /\ failed' = FALSE /\ read' = Nothing
  /\ ReloaderOnly /\ UNCHANGED <<token, silent>>

\* A query fails: the snapshot stays, and nothing tries again.
ReloadFails ==
  /\ reloader \in {"mappings", "devices", "policies"} /\ Within("failure")
  /\ reloader' = "idle" /\ failed' = TRUE /\ read' = Nothing
  /\ UNCHANGED <<database, admin, client, token, snapshot, silent>>

\* The server stops, or crashes, and starts again.
Restart ==
  /\ Within("restart")
  /\ admin' = [a \in Admins |-> "idle"] /\ client' = NoRow
  /\ token' = FALSE /\ reloader' = "mappings" /\ read' = Nothing /\ snapshot' = NoRow
  /\ failed' = FALSE /\ silent' = FALSE
  /\ UNCHANGED database

-----------------------------------------------------------------------------
ConsoleNext(a) ==
  \/ \E g \in Mappings : DisableMapping(a, g) \/ \E row \in MappingRow : SaveMapping(a, g, row)
  \/ \E t \in Targets : SavePolicy(a, t) \/ DisablePolicy(a, t)
  \/ \E d \in Devices : \/ DeleteDevice(a, d)
                        \/ \E on \in BOOLEAN : SetDeviceStatus(a, d, on)
                        \/ \E g \in Groups : AssignDevice(a, d, g)
  \/ ChangeGroup(a) \/ RequestReload(a)

DeviceNext == (\E d \in Devices : ClientReads(d)) \/ Register \/ Heartbeat

ReloaderNext ==
  \/ TakeToken \/ TimerFires \/ DrainToken \/ Drained
  \/ ReadMappings \/ ReadDevices \/ ReadPolicies \/ Store

Next == (\E a \in Admins : ConsoleNext(a)) \/ DeviceNext \/ ReloaderNext \/ ReloadFails \/ Restart

Spec == Init /\ [][Next]_vars

\* The reloader's goroutine runs, and a request that committed goes on to its
\* end.  Nothing is assumed of the console's changes, the client or failures.
FairSpec ==
  /\ Spec
  /\ WF_vars(ReloaderNext)
  /\ \A a \in Admins : WF_vars(RequestReload(a))

-----------------------------------------------------------------------------
(* Properties *)

Fresh == snapshot = Routes(mappings, devices, denying)
Pending == token \/ \E a \in Admins : admin[a] = "trigger"

\* A stale snapshot is never forgotten: when the reloader rests on a snapshot
\* that differs from the tables, a request for a reload is on its way, the last
\* reload failed (it is not tried again), or a client wrote its row, for which
\* no reload is requested (route_store.go 162-200, http_route_reload.go 16-23).
\* A change committed between the reads of a reload is one of the first case.
StaleIsNoticed ==
  reloader = "idle" /\ ~Pending /\ ~failed /\ ~silent => Fresh

\* The gateway's two ways to answer a request agree: the route compiled by
\* Reload and routeAllowsHTTP, and the queries of findMapping and IsAllowed it
\* falls back to (server.go 90-118): the same mapping, device and decision.
CachedAnswersAgree ==
  \A host \in Hosts : Cached(Routes(mappings, devices, denying), host) = Direct(host)

\* A change of the console reaches the gateway: routes that differ from the
\* tables are eventually those of the tables, unless a reload failed or a client
\* wrote its row meanwhile.
RoutesConverge == ~Fresh ~> (Fresh \/ failed \/ silent)

=============================================================================
