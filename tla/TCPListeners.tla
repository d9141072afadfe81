---------------------------- MODULE TCPListeners ----------------------------
(***************************************************************************)
(* The listeners of the TCP gateway (tcpgateway/server.go) and the table   *)
(* of TCP mappings they follow (services/tcp_mapping_service.go).          *)
(*                                                                         *)
(* Every change of the table, and of the setting tcp_mapping_enabled,      *)
(* starts a goroutine that calls Reload.  Reload reads the setting and     *)
(* then the table, both outside its lock, and applies what it read under   *)
(* the lock.  Saving a mapping looks its public port up and writes the row *)
(* in separate statements.                                                 *)
(*                                                                         *)
(* Abstractions.  A mapping is its guid, its port and whether it is        *)
(* enabled; where it leads to is left out.  What stands between an         *)
(* accepted connection and its bridge (device, policy, permit, stream) is  *)
(* a choice: Sessions models it.  The port range does not change.          *)
(***************************************************************************)
EXTENDS Naturals

CONSTANTS
  Mappings,    \* guids of TCP mappings
  Devices,     \* guids of devices
  Owner,       \* the device of each mapping
  PortMin, PortMax,   \* tcp_public_port_min, tcp_public_port_max
  Contended,   \* those that another process of the host may take
  Admins,      \* goroutines serving requests of the console
  Reloaders,   \* bound: goroutines in Reload at a time
  Conns,       \* bound: connections at a time
  None,        \* no mapping
  MaxRequests  \* bound: requests of the console

\* TCPMappingPortRange
Ports == PortMin .. PortMax

ASSUME ListenersAssumption ==
  /\ Owner \in [Mappings -> Devices]
  /\ PortMin \in Nat \ {0} /\ PortMax \in Nat
  /\ Contended \subseteq Ports
  /\ None \notin Mappings
  /\ MaxRequests \in Nat

VARIABLES
  table,      \* navmesh_tcp_mappings: port 0 for a mapping without a row
  enabled,    \* the setting tcp_mapping_enabled
  registered, \* the gateway was started: tcpMappingReloader is set
  present,    \* the devices that have a row
  busy,       \* ports another process listens on
  save,       \* the request each administrator has under way
  reload,     \* the calls of Reload under way
  listeners,  \* Server.listeners: the mapping each port serves
  closing,    \* listeners Stop took out of the map and has not closed yet
  stopPc,     \* where Stop is
  conn,       \* the connections: what each handler is doing
  asked,      \* auxiliary: requests of the console
  version,    \* auxiliary: changes made so far
  applied,    \* auxiliary: the version last applied, and the newest applied
  missed,     \* auxiliary: ports whose listener could not be opened
  silent,     \* auxiliary: a device was deleted, or a reload failed, since
              \* the last reading began
  raced       \* auxiliary: mappings written after another took their port

console == <<table, enabled, present, save, asked, version, raced>>
gateway == <<registered, listeners, closing, stopPc, conn, applied, missed>>
listenersVars == <<table, enabled, registered, present, busy, save, reload,
                   listeners, closing, stopPc, conn, asked, version,
                   applied, missed, silent, raced>>

NoRow == [port |-> 0, on |-> FALSE]
Nobody == [p \in Ports |-> None]
NoSave == [at |-> "idle", guid |-> None, port |-> 0, on |-> FALSE, late |-> FALSE]
NoReload == [at |-> "idle", seen |-> 0, desired |-> Nobody, misread |-> FALSE]

\* The setting may be off when the server starts; then the gateway is not
\* started, and no reload registered, unless the query of the setting fails:
\* its default is "true".  A gateway that starts reloads once.
ListenersInit ==
  /\ table = [m \in Mappings |-> NoRow] /\ present = Devices
  /\ enabled \in BOOLEAN /\ busy = {}
  /\ registered \in IF enabled THEN {TRUE} ELSE BOOLEAN
  /\ save = [a \in Admins |-> NoSave]
  /\ \E r \in Reloaders :
       reload = [s \in Reloaders |-> IF registered /\ s = r
                                    THEN [NoReload EXCEPT !.at = "setting"]
                                    ELSE NoReload]
  /\ listeners = Nobody /\ closing = Nobody /\ stopPc = "no"
  /\ conn = [c \in Conns |-> "idle"]
  /\ asked = 0 /\ version = 0 /\ missed = {}
  /\ applied = [last |-> 0, newest |-> 0, misread |-> FALSE]
  /\ silent = FALSE /\ raced = {}

-----------------------------------------------------------------------------
(* The console. *)

\* The mappings enabled on a port, but for one.
TakenBy(p, m) == {n \in Mappings \ {m} : table[n].on /\ table[n].port = p}

Ask == asked < MaxRequests /\ asked' = asked + 1
Change == version' = version + 1

\* triggerTCPMappingReload: nothing, if no reload is registered
TriggerReload ==
  \/ /\ registered
     /\ \E r \in Reloaders : /\ reload[r].at = "idle"
                             /\ reload' = [reload EXCEPT ![r].at = "setting"]
  \/ ~registered /\ UNCHANGED reload

\* nextAvailablePublicPort: the first port nobody has; none is 0.
NextPort(m) ==
  LET free == {p \in Ports : TakenBy(p, m) = {}} IN
  IF free = {} THEN 0 ELSE CHOOSE p \in free : \A q \in free : p <= q

\* Save: the port is the one asked for (or, asked for 0, the next free one).
BeginSave(a, m, p, on) ==
  LET port == IF p = 0 THEN NextPort(m) ELSE p IN
  /\ save[a].at = "idle" /\ Ask /\ Owner[m] \in present
  /\ port # 0
  /\ save' = [save EXCEPT ![a] = [at |-> IF on THEN "check" ELSE "write",
                                  guid |-> m, port |-> port, on |-> on, late |-> FALSE]]
  /\ UNCHANGED <<table, enabled, present, busy, reload, gateway, version, silent, raced>>

\* plausible bug: a disabled request is compared, an enabled one is not
PortFreeSkipped(m, p) == TRUE

\* ensurePublicPortAvailable
PortFree(m, p) == TakenBy(p, m) = {}

CheckPort(a) ==
  LET s == save[a] IN
  /\ s.at = "check"
  /\ save' = [save EXCEPT ![a] = IF PortFree(s.guid, s.port)
                                 THEN [s EXCEPT !.at = "write"] ELSE NoSave]
  /\ UNCHANGED <<table, enabled, present, busy, reload, gateway, asked, version, silent, raced>>

\* The row is written whole, and inserted if there is none. Whoever else has
\* found the same port free will write after it.
WriteSave(a) ==
  LET s == save[a]
      Late(b) == /\ b # a /\ save[b].at = "write" /\ save[b].on
                 /\ s.on /\ save[b].port = s.port /\ save[b].guid # s.guid
  IN
  /\ s.at = "write" /\ Change
  /\ table' = [table EXCEPT ![s.guid] = [port |-> s.port, on |-> s.on]]
  /\ save' = [b \in Admins |-> IF b = a THEN NoSave
                               ELSE [save[b] EXCEPT !.late = @ \/ Late(b)]]
  /\ raced' = IF s.late THEN raced \cup {s.guid} ELSE raced \ {s.guid}
  /\ TriggerReload
  /\ UNCHANGED <<enabled, present, busy, gateway, asked, silent>>

Disable(m) ==
  /\ Ask /\ Change /\ table[m].port # 0
  /\ table' = [table EXCEPT ![m].on = FALSE]
  /\ TriggerReload
  /\ UNCHANGED <<enabled, present, busy, save, gateway, silent, raced>>

\* plausible bug: the setting is not among those that trigger a reload
SettingUnreloaded == UNCHANGED reload

\* SettingService.Save: isTCPMappingSetting
SettingReloads == TriggerReload

SetEnabled ==
  /\ Ask /\ Change /\ enabled' = ~enabled
  /\ SettingReloads
  /\ UNCHANGED <<table, present, busy, save, gateway, silent, raced>>

\* DeviceService.Delete removes the device's mappings and reloads the HTTP
\* routes only.
DeleteDevice(d) ==
  /\ d \in present /\ Ask /\ Change
  /\ present' = present \ {d}
  /\ table' = [m \in Mappings |-> IF Owner[m] = d THEN NoRow ELSE table[m]]
  /\ silent' = TRUE
  /\ UNCHANGED <<enabled, busy, save, reload, gateway, raced>>

-----------------------------------------------------------------------------
(* Reload. *)

\* What a query for the enabled mappings may answer: rows of one port come in
\* no particular order, and the first is taken.
Readings ==
  LET Of(p) == TakenBy(p, None) IN
  {d \in [Ports -> Mappings \cup {None}] :
     \A p \in Ports : IF Of(p) = {} THEN d[p] = None ELSE d[p] \in Of(p)}

\* TCPMappingService.Enabled: first the setting, which is taken to be on if
\* the query fails ...
ReadSetting(r) ==
  /\ reload[r].at = "setting"
  /\ \E read \in {enabled, TRUE} :
       reload' = [reload EXCEPT ![r] = [at |-> IF read THEN "rows" ELSE "apply",
                                        seen |-> version, desired |-> Nobody,
                                        misread |-> read # enabled]]
  /\ silent' = FALSE
  /\ UNCHANGED <<console, busy, gateway>>

\* ... then the rows.
ReadRows(r) ==
  /\ reload[r].at = "rows"
  /\ \E d \in Readings :
       reload' = [reload EXCEPT ![r].at = "apply", ![r].desired = d]
  /\ UNCHANGED <<console, busy, gateway, silent>>

\* The error is logged; nothing tries again.
ReadFails(r) ==
  /\ reload[r].at = "rows"
  /\ reload' = [reload EXCEPT ![r] = NoReload]
  /\ silent' = TRUE
  /\ UNCHANGED <<console, busy, gateway>>

CannotListen(desired) ==
  {p \in busy : desired[p] # None /\ listeners[p] = None}

\* Listeners are opened, given their mapping, and closed.
Listening(desired) ==
  [p \in Ports |-> IF p \in CannotListen(desired) THEN None ELSE desired[p]]

\* plausible bug: Reload does not look whether the server has stopped
StoppedIgnored == FALSE

Stopped == stopPc # "no"

Apply(r) ==
  LET desired == reload[r].desired
      seen == reload[r].seen
  IN
  /\ reload[r].at = "apply"
  /\ reload' = [reload EXCEPT ![r] = NoReload]
  /\ IF Stopped THEN UNCHANGED <<listeners, missed, applied>>
     ELSE /\ listeners' = Listening(desired)
          /\ missed' = CannotListen(desired)
          /\ applied' = [last |-> seen,
                         newest |-> IF seen > applied.newest THEN seen
                                    ELSE applied.newest,
                         misread |-> reload[r].misread]
  /\ UNCHANGED <<console, registered, busy, closing, stopPc, conn, silent>>

\* Other processes of the host.
Occupy(p) ==
  /\ p \notin busy /\ listeners[p] = None /\ closing[p] = None
  /\ busy' = busy \cup {p}
  /\ UNCHANGED <<console, reload, gateway, silent>>

Vacate(p) ==
  /\ p \in busy /\ busy' = busy \ {p}
  /\ UNCHANGED <<console, reload, gateway, silent>>

-----------------------------------------------------------------------------
(* Connections, and the end of the server. *)

Accept(c, p) ==
  /\ conn[c] = "idle"
  /\ listeners[p] # None \/ closing[p] # None
  /\ conn' = [conn EXCEPT ![c] = "open"]
  /\ UNCHANGED <<console, registered, busy, reload, listeners, closing, stopPc, applied,
                 missed, silent>>

\* A copy of the bridge writes to a device that takes nothing. A write to a
\* QUIC stream has no deadline, and closing the client does not end it; only
\* the device can, after Stop with the end of the bridge.
Block(c) ==
  /\ conn[c] = "open" /\ conn' = [conn EXCEPT ![c] = "stuck"]
  /\ UNCHANGED <<console, registered, busy, reload, listeners, closing, stopPc, applied,
                 missed, silent>>

Unblock(c) ==
  /\ conn[c] = "stuck"
  /\ conn' = [conn EXCEPT ![c] = IF stopPc = "wait" THEN "idle" ELSE "open"]
  /\ UNCHANGED <<console, registered, busy, reload, listeners, closing, stopPc, applied,
                 missed, silent>>

\* handleConn returns: refused, or not bridged (its stream is opened with a
\* timeout), or after its bridge.
EndConn(c) ==
  /\ conn[c] = "open" /\ conn' = [conn EXCEPT ![c] = "idle"]
  /\ UNCHANGED <<console, registered, busy, reload, listeners, closing, stopPc, applied,
                 missed, silent>>

\* Stop: the map is emptied under the lock ...
BeginStop ==
  /\ registered /\ stopPc = "no" /\ stopPc' = "close"
  /\ closing' = listeners /\ listeners' = Nobody
  /\ UNCHANGED <<console, registered, busy, reload, conn, applied, missed, silent>>

\* ... the context, with it every connection, and the listeners are closed
\* after it ...
CloseListeners ==
  /\ stopPc = "close" /\ stopPc' = "wait"
  /\ closing' = Nobody
  /\ UNCHANGED <<console, registered, busy, reload, listeners, conn, applied, missed, silent>>

\* ... and Stop waits for the accept loops and the handlers.
WaitHandlers ==
  /\ stopPc = "wait" /\ \A c \in Conns : conn[c] = "idle"
  /\ stopPc' = "done"
  /\ UNCHANGED <<console, registered, busy, reload, listeners, closing, conn, applied,
                 missed, silent>>

\* The watcher of a connection closes its client when the context is
\* cancelled: the copies of the bridge end, but for one blocked in a write.
Cancelled(c) == stopPc = "wait" /\ EndConn(c)

ListenersNext ==
  \/ \E a \in Admins :
       \/ \E m \in Mappings, p \in Ports \cup {0}, on \in BOOLEAN : BeginSave(a, m, p, on)
       \/ CheckPort(a) \/ WriteSave(a)
  \/ \E m \in Mappings : Disable(m)
  \/ SetEnabled
  \/ \E d \in Devices : DeleteDevice(d)
  \/ \E r \in Reloaders : ReadSetting(r) \/ ReadRows(r) \/ ReadFails(r) \/ Apply(r)
  \/ \E p \in Contended : Occupy(p) \/ Vacate(p)
  \/ \E c \in Conns : \/ EndConn(c) \/ Block(c) \/ Unblock(c)
                      \/ \E p \in Ports : Accept(c, p)
  \/ BeginStop \/ CloseListeners \/ WaitHandlers

ListenersFairness ==
  /\ WF_listenersVars(CloseListeners) /\ WF_listenersVars(WaitHandlers)
  /\ \A r \in Reloaders : WF_listenersVars(ReadSetting(r) \/ ReadRows(r) \/ Apply(r))
  /\ \A c \in Conns : WF_listenersVars(Cancelled(c))

ListenersSpec == ListenersInit /\ [][ListenersNext]_listenersVars
ListenersFairSpec == ListenersSpec /\ ListenersFairness

-----------------------------------------------------------------------------
MappingRow == [port : Ports \cup {0}, on : BOOLEAN]
SaveState == [at : {"idle", "check", "write"}, guid : Mappings \cup {None},
              port : Ports \cup {0}, on : BOOLEAN, late : BOOLEAN]
ReloadState == [at : {"idle", "setting", "rows", "apply"}, seen : Nat,
                desired : [Ports -> Mappings \cup {None}], misread : BOOLEAN]

ListenersTypeOK ==
  /\ table \in [Mappings -> MappingRow]
  /\ enabled \in BOOLEAN /\ registered \in BOOLEAN /\ present \subseteq Devices /\ busy \subseteq Ports
  /\ save \in [Admins -> SaveState]
  /\ reload \in [Reloaders -> ReloadState]
  /\ listeners \in [Ports -> Mappings \cup {None}]
  /\ closing \in [Ports -> Mappings \cup {None}]
  /\ stopPc \in {"no", "close", "wait", "done"}
  /\ conn \in [Conns -> {"idle", "open", "stuck"}]
  /\ asked \in 0 .. MaxRequests /\ version \in Nat
  /\ applied \in [last : Nat, newest : Nat, misread : BOOLEAN]
  /\ missed \subseteq Ports /\ silent \in BOOLEAN /\ raced \subseteq Mappings

\* What the listeners should be, by the table and the setting.
Serves(p, m) == IF enabled THEN \E d \in Readings : d[p] = m ELSE m = None

\* When no reload is under way, a port that does not serve what the table says
\* has one of these reasons: another process had the port; the reading applied
\* last was older than one applied before it, or took a failed query of the
\* setting for "true"; a device was deleted (Delete triggers no reload of these
\* listeners) or a reload failed, and none began since; or the setting was off
\* when the server started (startTCPMappingServer registers no reload then),
\* and nothing is listened on.
StaleIsExplained ==
  ~Stopped /\ (\A r \in Reloaders : reload[r].at = "idle") =>
    \A p \in Ports : \/ Serves(p, listeners[p])
                     \/ p \in missed
                     \/ applied.last < applied.newest \/ applied.misread
                     \/ silent
                     \/ ~registered /\ listeners[p] = None

\* Two enabled mappings share a public port only if one of them was written
\* after the other by a request that had looked before it: the check of Save
\* is good except for the interval up to its write.
SharedPortWasRaced ==
  \A m, n \in Mappings :
    m # n /\ table[m].on /\ table[n].on /\ table[m].port = table[n].port
      => raced \cap {m, n} # {}

\* Stop leaves nothing behind: whatever reloads were under way, no port is
\* listened on again, and every connection ends.  Stop returns, unless a copy
\* blocked in a write to a device keeps a handler, and with it the shutdown of
\* the server, waiting.
StopEnds ==
  Stopped ~> [](/\ listeners = Nobody /\ closing = Nobody
                /\ \A c \in Conns : conn[c] \in {"idle", "stuck"}
                /\ stopPc = "done" \/ \E c \in Conns : conn[c] = "stuck")
=============================================================================
