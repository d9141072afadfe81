------------------------------ MODULE Sessions ------------------------------
(***************************************************************************)
(* The sessions of the SSH, TCP and HTTP gateways: the permit of the       *)
(* runtime policy, the row of tunnel_sessions, the stream to the device,   *)
(* the entry in the registry of running sessions, and the administrator    *)
(* who closes a session or deletes its device.                             *)
(*                                                                         *)
(* A session of KindOf "ssh" or "tcp" is one run of handleConn; one of     *)
(* kind "http" is a pooled connection (tunnelHTTPConn), which its          *)
(* transport or the administrator closes: whoever comes first runs Close,  *)
(* the other returns at once.                                              *)
(*                                                                         *)
(* Abstractions.  The statements before Acquire (route lookup, access      *)
(* policy) end the handler without a trace.  The database never fails.     *)
(* All sources share one address; time shows only as hits leaving the      *)
(* window of the rate limit.  A marker of a forced close never reaches     *)
(* its one hour of age before the finalizer asks for it.                   *)
(***************************************************************************)
EXTENDS Naturals, FiniteSets

CONSTANTS
  SessionIds,   \* connections to the gateways, named by their session's guid
  Devices,
  Admins,       \* goroutines running SessionService.Close or DeviceService.Delete
  KindOf,       \* the gateway of a session
  DeviceOf,     \* the device a session leads to
  MaxTotal,     \* MaxConcurrentSessions; 0: no limit
  MaxDevice,    \* MaxDeviceSessions; 0: no limit
  RateLimit,    \* RateLimitPerMinute; 0: no limit
  MaxRequests,  \* bound: requests of administrators
  MaxCrashes,   \* bound: crashes of the server
  NoSession,
  NoDevice

Kinds == {"ssh", "tcp", "http"}

ASSUME SessionsAssumption ==
  /\ IsFiniteSet(SessionIds)
  /\ KindOf \in [SessionIds -> Kinds]
  /\ DeviceOf \in [SessionIds -> Devices]
  /\ NoSession \notin SessionIds /\ NoDevice \notin Devices
ASSUME LimitsAssumption ==
  /\ MaxTotal \in Nat /\ MaxDevice \in Nat /\ RateLimit \in Nat
  /\ MaxRequests \in Nat /\ MaxCrashes \in Nat

VARIABLES
  pc,           \* where the handler, or the pooled connection, of a session is
  reason,       \* what its finalizer will write as disconnect_reason
  rows,         \* tunnel_sessions
  upstream,     \* sessions whose stream to the device is open
  registered,   \* DefaultSessionRegistry.sessions
  forcedMarker, \* DefaultSessionRegistry.forcedSession
  total,        \* DefaultRuntimePolicy.total
  byDevice,     \* DefaultRuntimePolicy.byDevice
  hits,         \* hits of the source inside the window of the rate limit
  admin,        \* where each administrator's goroutine is
  requests,     \* auxiliary: requests of administrators
  crashes,      \* auxiliary: crashes
  forced,       \* auxiliary: sessions CloseSession found before their finalizer
  missed        \* auxiliary: rows closed while no closer was known for them

policy == <<total, byDevice, hits>>
registry == <<registered, forcedMarker>>
bounds == <<requests, crashes>>
history == <<forced, missed>>
vars == <<pc, reason, rows, upstream, policy, registry, admin, bounds, history>>

Reasons == {"", "closed", "closed_by_admin", "closed_by_admin_offline",
            "open_tunnel_failed", "write_connect_response_failed", "device_deleted"}
AdminReasons == {"closed_by_admin", "closed_by_admin_offline", "device_deleted"}

NoRow == [status |-> "none", force |-> FALSE, reason |-> ""]

Opening == {"permit", "opening", "opened", "created"}
Finalizing == {"ended", "mark", "unregister", "closeUpstream", "release"}
Bridged == {"bridge", "blocked"}
Stages == {"new", "connect", "done", "dead"} \cup Opening \cup Bridged \cup Finalizing

Idle == [at |-> "idle", device |-> NoDevice, asked |-> {}, todo |-> {},
         cur |-> NoSession, found |-> FALSE]
AdminState == [at : {"idle", "take", "close", "wait"},
               device : Devices \cup {NoDevice},  \* the device being deleted
               asked : SUBSET SessionIds,         \* sessions it means to close
               todo : SUBSET SessionIds,          \* those still to be closed
               cur : SessionIds \cup {NoSession}, found : BOOLEAN]

TypeOK ==
  /\ pc \in [SessionIds -> Stages]
  /\ reason \in [SessionIds -> Reasons]
  /\ rows \in [SessionIds -> [status : {"none", "open", "closed"},
                              force : BOOLEAN, reason : Reasons]]
  /\ upstream \subseteq SessionIds
  /\ registered \subseteq SessionIds /\ forcedMarker \subseteq SessionIds
  /\ total \in Nat /\ byDevice \in [Devices -> Nat] /\ hits \in 0 .. RateLimit
  /\ admin \in [Admins -> AdminState]
  /\ requests \in 0 .. MaxRequests /\ crashes \in 0 .. MaxCrashes
  /\ forced \subseteq SessionIds /\ missed \subseteq SessionIds

Init ==
  /\ pc = [s \in SessionIds |-> "new"]
  /\ reason = [s \in SessionIds |-> ""]
  /\ rows = [s \in SessionIds |-> NoRow]
  /\ upstream = {} /\ registered = {} /\ forcedMarker = {}
  /\ total = 0 /\ byDevice = [d \in Devices |-> 0] /\ hits = 0
  /\ admin = [a \in Admins |-> Idle]
  /\ requests = 0 /\ crashes = 0
  /\ forced = {} /\ missed = {}

-----------------------------------------------------------------------------
(* The runtime policy. *)

WithinRate == RateLimit = 0 \/ hits < RateLimit
WithinLimits(d) ==
  /\ MaxTotal = 0 \/ total < MaxTotal
  /\ MaxDevice = 0 \/ byDevice[d] < MaxDevice

\* A connection the limits turn away has used up one of its source's hits.
Acquire(s) ==
  /\ pc[s] = "new"
  /\ hits' = IF RateLimit > 0 /\ WithinRate THEN hits + 1 ELSE hits
  /\ IF WithinRate /\ WithinLimits(DeviceOf[s])
     THEN /\ total' = total + 1
          /\ byDevice' = [byDevice EXCEPT ![DeviceOf[s]] = @ + 1]
          /\ pc' = [pc EXCEPT ![s] = "permit"]
     ELSE /\ pc' = [pc EXCEPT ![s] = "done"]
          /\ UNCHANGED <<total, byDevice>>
  /\ UNCHANGED <<reason, rows, upstream, registry, admin, bounds, history>>

\* A hit of the source is a minute old.
HitExpires ==
  /\ hits > 0
  /\ hits' = hits - 1
  /\ UNCHANGED <<pc, reason, rows, upstream, total, byDevice, registry, admin,
                 bounds, history>>

Released(d) ==
  /\ total' = IF total > 0 THEN total - 1 ELSE 0
  /\ byDevice' = [byDevice EXCEPT ![d] = IF @ > 0 THEN @ - 1 ELSE 0]
  /\ UNCHANGED hits

-----------------------------------------------------------------------------
(* Opening: the row comes before the stream, except at the HTTP gateway. *)

NewRow == [NoRow EXCEPT !.status = "open"]

CreateRow(s) ==
  /\ \/ KindOf[s] # "http" /\ pc[s] = "permit" /\ pc' = [pc EXCEPT ![s] = "opening"]
     \/ KindOf[s] = "http" /\ pc[s] = "opened" /\ pc' = [pc EXCEPT ![s] = "created"]
  /\ rows' = [rows EXCEPT ![s] = NewRow]
  /\ UNCHANGED <<reason, upstream, policy, registry, admin, bounds, history>>

AtOpen(s) == pc[s] = IF KindOf[s] = "http" THEN "permit" ELSE "opening"

OpenSucceeds(s) ==
  /\ AtOpen(s)
  /\ pc' = [pc EXCEPT ![s] = "opened"]
  /\ upstream' = upstream \cup {s}
  /\ UNCHANGED <<reason, rows, policy, registry, admin, bounds, history>>

\* plausible bug: handleConn returns without closing the row when the stream cannot be opened
OpenFailsUnmarked(s) ==
  /\ AtOpen(s)
  /\ pc' = [pc EXCEPT ![s] = "release"]
  /\ UNCHANGED <<reason, rows, upstream, policy, registry, admin, bounds, history>>

OpenFails(s) ==
  /\ AtOpen(s)
  /\ IF KindOf[s] = "http"
     THEN pc' = [pc EXCEPT ![s] = "release"] /\ UNCHANGED reason
     ELSE /\ pc' = [pc EXCEPT ![s] = "mark"]
          /\ reason' = [reason EXCEPT ![s] = "open_tunnel_failed"]
  /\ UNCHANGED <<rows, upstream, policy, registry, admin, bounds, history>>

RegisterSession(s) ==
  /\ pc[s] = IF KindOf[s] = "http" THEN "created" ELSE "opened"
  /\ registered' = registered \cup {s}
  /\ pc' = [pc EXCEPT ![s] = IF KindOf[s] = "ssh" THEN "connect" ELSE "bridge"]
  /\ UNCHANGED <<reason, rows, upstream, policy, forcedMarker, admin, bounds, history>>

\* The SSH gateway answers the CONNECT request; the client may have gone, and
\* has if the administrator closed the session.
AnswerConnect(s) ==
  /\ pc[s] = "connect"
  /\ \/ /\ s \in upstream
        /\ pc' = [pc EXCEPT ![s] = "bridge"] /\ UNCHANGED reason
     \/ /\ pc' = [pc EXCEPT ![s] = "mark"]
        /\ reason' = [reason EXCEPT ![s] = "write_connect_response_failed"]
  /\ UNCHANGED <<rows, upstream, policy, registry, admin, bounds, history>>

-----------------------------------------------------------------------------
(* Closing. *)

\* plausible bug: tunnelHTTPConn.Close without closed.Swap: a second Close runs again
CloseConnTwice(s) ==
  /\ pc[s] \in {"bridge", "done"}
  /\ pc' = [pc EXCEPT ![s] = "ended"]

\* tunnelHTTPConn.Close: only the first caller goes on.
CloseConn(s) ==
  /\ pc[s] = "bridge"
  /\ pc' = [pc EXCEPT ![s] = "ended"]

\* plausible bug: CloseSession deletes the entry before it copies the closers
ClosedNothing(s) == upstream

\* What is left open when an SSH or TCP session's client and stream are
\* closed; closing the stream of an HTTP session is a step of its Close.
Closed(s) == IF KindOf[s] = "http" THEN upstream ELSE upstream \ {s}

\* A copy of the bridge writes to a device that takes nothing: a write to a
\* QUIC stream has no deadline, and to close the stream does not end it. A
\* write begun after the stream was closed fails.
Block(s) ==
  /\ pc[s] = "bridge" /\ KindOf[s] # "http" /\ s \in upstream
  /\ pc' = [pc EXCEPT ![s] = "blocked"]
  /\ UNCHANGED <<reason, rows, upstream, policy, registry, admin, bounds, history>>

Unblock(s) ==
  /\ pc[s] = "blocked"
  /\ pc' = [pc EXCEPT ![s] = "bridge"]
  /\ UNCHANGED <<reason, rows, upstream, policy, registry, admin, bounds, history>>

Stalls(s) == Block(s) \/ Unblock(s)

\* Bridge returns after it has closed both sides; the transport closes a
\* pooled connection that failed, or was idle too long.
StreamEnds(s) ==
  /\ CloseConn(s)
  /\ upstream' = Closed(s)
  /\ UNCHANGED <<reason, rows, policy, registry, admin, bounds, history>>

ConsumeForceClosed(s) ==
  /\ pc[s] = "ended"
  /\ reason' = [reason EXCEPT ![s] =
                  IF s \in forcedMarker THEN "closed_by_admin" ELSE "closed"]
  /\ forcedMarker' = forcedMarker \ {s}
  /\ pc' = [pc EXCEPT ![s] = IF KindOf[s] = "http" THEN "unregister" ELSE "mark"]
  /\ UNCHANGED <<rows, upstream, policy, registered, admin, bounds, history>>

\* markSessionClosed, closeTCPSession, closeHTTPSession
MarkSessionClosed(s) ==
  /\ pc[s] = "mark"
  /\ rows' = [rows EXCEPT ![s].status = "closed", ![s].reason = reason[s]]
  /\ pc' = [pc EXCEPT ![s] = IF KindOf[s] = "http" \/ reason[s] = "open_tunnel_failed"
                             THEN "release" ELSE "unregister"]
  /\ UNCHANGED <<reason, upstream, policy, registry, admin, bounds, history>>

UnregisterSession(s) ==
  /\ pc[s] = "unregister"
  /\ registered' = registered \ {s}
  /\ pc' = [pc EXCEPT ![s] = IF KindOf[s] = "http" THEN "mark" ELSE "closeUpstream"]
  /\ UNCHANGED <<reason, rows, upstream, policy, forcedMarker, admin, bounds, history>>

CloseUpstream(s) ==
  /\ pc[s] = "closeUpstream"
  /\ upstream' = upstream \ {s}
  /\ pc' = [pc EXCEPT ![s] = IF KindOf[s] = "http" THEN "done" ELSE "release"]
  /\ UNCHANGED <<reason, rows, policy, registry, admin, bounds, history>>

\* The HTTP gateway releases the permit before it closes the stream.
Release(s) ==
  /\ pc[s] = "release"
  /\ Released(DeviceOf[s])
  /\ pc' = [pc EXCEPT ![s] = IF s \in upstream THEN "closeUpstream" ELSE "done"]
  /\ reason' = [reason EXCEPT ![s] = ""]
  /\ UNCHANGED <<rows, upstream, registry, admin, bounds, history>>

-----------------------------------------------------------------------------
(* The administrator: SessionService.Close of one session, or              *)
(* DeviceService.Delete, which closes every open session of a device.      *)

Advanced(a) == [admin EXCEPT ![a].at = "take", ![a].cur = NoSession]

Ask(a, d, asked) ==
  /\ admin[a].at = "idle" /\ requests < MaxRequests
  /\ admin' = [admin EXCEPT ![a] = [Idle EXCEPT !.at = "take", !.device = d,
                                                !.asked = asked, !.todo = asked]]
  /\ requests' = requests + 1
  /\ UNCHANGED <<pc, reason, rows, upstream, policy, registry, crashes, history>>

AskClose(a, s) == rows[s].status # "none" /\ Ask(a, NoDevice, {s})

OpenRows(d) == {s \in SessionIds : DeviceOf[s] = d /\ rows[s].status = "open"}

AskDelete(a, d) == Ask(a, d, OpenRows(d))

\* RuntimeSessionRegistry.CloseSession: what it does under its lock ...
Marked(s) == IF s \in registered THEN forcedMarker \cup {s} ELSE forcedMarker

TakeClosers(a, s) ==
  /\ admin[a].at = "take" /\ s \in admin[a].todo
  /\ admin' = [admin EXCEPT ![a].todo = @ \ {s},
                            ![a].cur = IF s \in registered THEN s ELSE NoSession,
                            ![a].at = IF s \in registered THEN "close" ELSE "take",
                            ![a].found = s \in registered]
  /\ registered' = registered \ {s}
  /\ forcedMarker' = Marked(s)
  /\ forced' = IF s \in registered /\ pc[s] \in {"connect", "ended"} \cup Bridged
               THEN forced \cup {s} ELSE forced
  /\ missed' = IF pc[s] \in Opening THEN missed \cup {s} ELSE missed
  /\ UNCHANGED <<pc, reason, rows, upstream, policy, bounds>>

\* ... and the closers it calls without it
RunClosers(a) ==
  LET s == admin[a].cur IN
  /\ admin[a].at = "close"
  /\ upstream' = Closed(s)
  /\ IF KindOf[s] = "http" /\ pc[s] = "bridge"
     THEN CloseConn(s) /\ admin' = [admin EXCEPT ![a].at = "wait"]
     ELSE UNCHANGED pc /\ admin' = Advanced(a)
  /\ UNCHANGED <<reason, rows, policy, registry, bounds, history>>

\* The administrator's goroutine has run Close of the pooled connection.
CloserReturns(a) ==
  /\ admin[a].at = "wait" /\ pc[admin[a].cur] = "done"
  /\ admin' = Advanced(a)
  /\ UNCHANGED <<pc, reason, rows, upstream, policy, registry, bounds, history>>

ForceClosed(why) == [status |-> "closed", force |-> TRUE, reason |-> why]

Updated(a) ==
  IF admin[a].device = NoDevice THEN admin[a].asked ELSE OpenRows(admin[a].device)

UpdateRows(a) ==
  /\ admin[a].at = "take" /\ admin[a].todo = {}
  /\ LET why == IF admin[a].device # NoDevice THEN "device_deleted"
                ELSE IF admin[a].found THEN "closed_by_admin"
                ELSE "closed_by_admin_offline"
     IN rows' = [s \in SessionIds |-> IF s \in Updated(a) THEN ForceClosed(why)
                                      ELSE rows[s]]
  /\ missed' = missed \cup (Updated(a) \ admin[a].asked)
  /\ admin' = [admin EXCEPT ![a] = Idle]
  /\ UNCHANGED <<pc, reason, upstream, policy, registry, bounds, forced>>

-----------------------------------------------------------------------------
\* The server dies and starts again: the rows are all it remembers.
Crash ==
  /\ crashes < MaxCrashes
  /\ crashes' = crashes + 1
  /\ pc' = [s \in SessionIds |-> IF pc[s] \in {"new", "done"} THEN pc[s] ELSE "dead"]
  /\ upstream' = {} /\ registered' = {} /\ forcedMarker' = {}
  /\ total' = 0 /\ byDevice' = [d \in Devices |-> 0] /\ hits' = 0
  /\ admin' = [a \in Admins |-> Idle]
  /\ reason' = [s \in SessionIds |-> ""]
  /\ missed' = {}
  /\ UNCHANGED <<rows, requests, forced>>

Handler(s) ==
  \/ CreateRow(s) \/ OpenSucceeds(s) \/ OpenFails(s)
  \/ RegisterSession(s) \/ AnswerConnect(s)
  \/ ConsumeForceClosed(s) \/ MarkSessionClosed(s) \/ UnregisterSession(s)
  \/ CloseUpstream(s) \/ Release(s)

Administrator(a) ==
  \/ \E s \in SessionIds : TakeClosers(a, s)
  \/ RunClosers(a) \/ CloserReturns(a) \/ UpdateRows(a)

Next ==
  \/ \E s \in SessionIds : Acquire(s) \/ Handler(s) \/ Stalls(s) \/ StreamEnds(s)
  \/ \E a \in Admins : \/ Administrator(a)
                       \/ \E s \in SessionIds : AskClose(a, s)
                       \/ \E d \in Devices : AskDelete(a, d)
  \/ HitExpires
  \/ Crash

\* The goroutines run on; opening a stream has a timeout of 15 seconds; a
\* bridge whose stream was closed under it returns, with the idle deadline of
\* its reads at the latest, unless a copy is blocked in a write.  Nothing makes
\* a client connect, an administrator ask, a device take what is written to it,
\* or a stream end by itself.
Fairness ==
  /\ \A s \in SessionIds : /\ WF_vars(Handler(s))
                           /\ WF_vars(s \notin upstream /\ StreamEnds(s))
  /\ \A a \in Admins : WF_vars(Administrator(a))

Spec == Init /\ [][Next]_vars /\ Fairness

-----------------------------------------------------------------------------
HoldsPermit(s) ==
  pc[s] \in (Opening \cup Bridged \cup Finalizing \cup {"connect"})
            \ (IF KindOf[s] = "http" THEN {"closeUpstream"} ELSE {})
Holders == {s \in SessionIds : HoldsPermit(s)}
On(d) == {s \in SessionIds : DeviceOf[s] = d}

\* However a session ends - refused by the device, client gone, bridge over,
\* closed by its transport and by the administrator at once, server crashed -
\* its permit is given back exactly once: the counters of the runtime policy
\* (Acquire, Release) are the sessions that hold a permit.
PermitsConserved ==
  /\ total = Cardinality(Holders)
  /\ \A d \in Devices : byDevice[d] = Cardinality(Holders \cap On(d))

Streams == {s \in upstream : pc[s] # "closeUpstream" \/ KindOf[s] # "http"}

\* The streams open to the devices keep within the limits of the policy, but
\* for the pooled HTTP connections tunnelHTTPConn.Close has released the
\* permit of and not yet closed.
StreamsWithinLimits ==
  /\ MaxTotal > 0 => Cardinality(Streams) <= MaxTotal
  /\ MaxDevice > 0 => \A d \in Devices : Cardinality(Streams \cap On(d)) <= MaxDevice

\* A goroutine took the closers of s from the registry and has yet to call them.
BeingClosed(s) == \E a \in Admins : admin[a].at = "close" /\ admin[a].cur = s

\* No session carries bytes beyond the administrator's reach: while it is
\* bridged, it is in the registry, or its stream is closed already, or is
\* about to be.
RunningSessionsReachable ==
  \A s \in SessionIds : pc[s] \in Bridged =>
    \/ s \in registered
    \/ s \notin upstream
    \/ BeingClosed(s)

\* The row and the session agree.  A finished session's row is closed.  A
\* session whose row is closed is not running, or is about to be closed, with
\* one exception: an administrator who came after the row was created and
\* before the stream was registered (SessionService.Close finds no closer,
\* closes the row, and the handler, unaware, goes on).  And a session closed by
\* the administrator while it ran is recorded as such, although its finalizer
\* overwrites the row: it learns of it from the marker (ConsumeForceClosed) -
\* but for an SSH session closed before its CONNECT was answered, which ends
\* without asking.
RowsTellTheTruth ==
  \A s \in SessionIds :
    /\ pc[s] = "done" => rows[s].status # "open"
    /\ pc[s] \in Bridged /\ s \in upstream /\ rows[s].status = "closed"
         => s \in missed \/ BeingClosed(s)
    /\ s \in forced /\ pc[s] = "done" =>
         rows[s].reason \in AdminReasons \cup {"write_connect_response_failed"}

\* A session whose closers the administrator took ends: bridge, finalizer and
\* release all run to their end, or the server crashes, or a copy of its bridge
\* is blocked for ever in a write to the device, and the closers do not help.
ForcedSessionsEnd ==
  \A s \in SessionIds :
    s \in forced ~> (pc[s] \in {"done", "dead"} \/ [](pc[s] = "blocked"))
=============================================================================
