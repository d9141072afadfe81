------------------------------ MODULE Telemetry ------------------------------
(***************************************************************************)
(* What becomes of the counters a device reports: the client's telemetry   *)
(* snapshot (cmd/navmesh-client/main.go), the server's sampler             *)
(* (services/liveness_registry.go) and the traffic accounting              *)
(* (services/device_service.go, device_traffic_service.go), for one device *)
(* and one interface.                                                      *)
(*                                                                         *)
(* Concurrency.  The client sends one request after the other, but gives   *)
(* up on one after its timeout while the server goes on with it; a new     *)
(* tunnel or a new process of the client sends its own.  So the server may *)
(* handle several requests of one device at once, in any order, each in    *)
(* several statements.                                                     *)
(*                                                                         *)
(* Abstractions.  The rows of the days are one total, so the sample time,  *)
(* which only chooses the day, is left out.  SQLite runs the transaction   *)
(* of a traffic sample alone or fails it.  Bytes and ticks are small       *)
(* numbers.                                                                *)
(***************************************************************************)
EXTENDS Integers, FiniteSetsExt

CONSTANTS
  Requests,  \* requests the server handles at once
  Interval,  \* telemetrySampleInterval, in ticks
  MaxTime,   \* bound: the clock
  MaxBytes,  \* bound: bytes the interface moves
  MaxBoots,  \* bound: restarts of the device or of its interface
  NoSample

ASSUME TelemetryAssumption ==
  /\ Interval \in Nat
  /\ MaxTime \in Nat \ {0} /\ MaxBytes \in Nat /\ MaxBoots \in Nat

Time == 1 .. MaxTime
Bytes == 0 .. MaxBytes
NoBootId == 0
Never == 0

\* Counters as a request carries them; at: bytes the interface had moved in all.
\* and the restarts before it.
Sample == [rx: Bytes, tx: Bytes, boot: 0 .. MaxBoots + 1, at: Bytes, restarts: 0 .. MaxBoots]
ASSUME NoSampleAssumption == NoSample \notin Sample

VARIABLES
  now,        \* the server's clock
  rx, tx,     \* the counters of the device's interface
  bootId,     \* the identity of the device's boot, or NoBootId
  moved,      \* auxiliary: bytes the interface has moved in all
  restarts,   \* auxiliary: restarts so far
  telemetry,  \* heartbeatTelemetryState: the sample heartbeats repeat
  request,    \* the handlers of the server
  lastSave,   \* DefaultTelemetrySampler: the time of the device's last sample
  stored,     \* the row of DeviceTrafficState, or NoSample
  counted,    \* total_bytes of the rows of DeviceTrafficDaily
  base,       \* auxiliary: bytes moved at the first sample that was stored
  late,       \* auxiliary: a sample was stored after a later one
  granted,    \* auxiliary: times of samples granted and not forgotten
  early,      \* auxiliary: a sample was granted within Interval of another
  newest,     \* auxiliary: the latest time a sample was granted for
  overtaken   \* auxiliary: a slow handler came after one that began later

device == <<rx, tx, bootId, moved, restarts>>
sampler == <<lastSave, granted, early, newest, overtaken>>
traffic == <<stored, counted, base, late>>
telemetryVars == <<now, device, telemetry, request, sampler, traffic>>

Idle == [phase |-> "idle", sample |-> NoSample, at |-> Never]
Phases == {"idle", "sent", "registered", "granted", "mark"}

TelemetryTypeOK ==
  /\ now \in Time
  /\ {rx, tx, moved, base} \subseteq Bytes /\ counted \in Nat
  /\ bootId \in 0 .. MaxBoots + 1 /\ restarts \in 0 .. MaxBoots
  /\ {telemetry, stored} \subseteq Sample \cup {NoSample}
  /\ request \in [Requests -> [phase: Phases, sample: Sample \cup {NoSample},
                           at: Time \cup {Never}]]
  /\ {lastSave, newest} \subseteq Time \cup {Never}
  /\ granted \subseteq Time
  /\ {late, early, overtaken} \subseteq BOOLEAN

\* The device may not know its boot id (detectBootID).
TelemetryInit ==
  /\ now = 1
  /\ rx = 0 /\ tx = 0 /\ moved = 0 /\ restarts = 0
  /\ bootId \in {NoBootId, 1}
  /\ telemetry = NoSample
  /\ request = [r \in Requests |-> Idle]
  /\ lastSave = Never /\ granted = {} /\ early = FALSE
  /\ newest = Never /\ overtaken = FALSE
  /\ stored = NoSample /\ counted = 0 /\ base = 0 /\ late = FALSE

Tick ==
  /\ now < MaxTime
  /\ now' = now + 1
  /\ UNCHANGED <<device, telemetry, request, sampler, traffic>>

-----------------------------------------------------------------------------
(* The device.                                                             *)

Move ==
  /\ moved < MaxBytes
  /\ moved' = moved + 1
  /\ \/ rx' = rx + 1 /\ tx' = tx
     \/ tx' = tx + 1 /\ rx' = rx
  /\ UNCHANGED <<now, bootId, restarts, telemetry, request, sampler, traffic>>

\* The device boots, or its interface is made anew: the counters start from
\* zero, and a client that goes on keeps its snapshot.
Restart ==
  /\ restarts < MaxBoots
  /\ restarts' = restarts + 1
  /\ rx' = 0 /\ tx' = 0
  /\ bootId' \in {bootId, IF bootId = NoBootId THEN NoBootId ELSE bootId + 1}
  /\ \/ telemetry' = NoSample
     \/ bootId' = bootId /\ UNCHANGED telemetry
  /\ UNCHANGED <<now, moved, request, sampler, traffic>>

Current == [rx |-> rx, tx |-> tx, boot |-> bootId, at |-> moved,
            restarts |-> restarts]

\* A heartbeat repeats the snapshot until cfg.Telemetry has passed.
Post(r) ==
  /\ request[r].phase = "idle"
  /\ \E s \in {Current} \cup ({telemetry} \ {NoSample}) :
       /\ telemetry' = s
       /\ request' = [request EXCEPT ![r] = [phase |-> "sent", sample |-> s, at |-> now]]
  /\ UNCHANGED <<now, device, sampler, traffic>>

\* A registration reads the counters itself, and the server stores them
\* without asking the sampler.
Register(r) ==
  /\ request[r].phase = "idle"
  /\ request' = [request EXCEPT ![r] = [Idle EXCEPT !.phase = "registered", !.sample = Current]]
  /\ UNCHANGED <<now, device, telemetry, sampler, traffic>>

-----------------------------------------------------------------------------
(* A handler of the server.                                                *)

ShouldPersist(t) == lastSave = Never \/ t - lastSave >= Interval

\* Heartbeat without a sample: the rest of its work is DeviceLifecycle's.
HeartbeatOnly(r) ==
  /\ request[r].phase = "sent"
  /\ \E t \in request[r].at .. now : ~ShouldPersist(t)
  /\ request' = [request EXCEPT ![r] = Idle]
  /\ UNCHANGED <<now, device, telemetry, sampler, traffic>>

\* The sampler grants the sample and remembers it at once; the handler goes by
\* the time it began at.
GrantSample(r) ==
  /\ request[r].phase = "sent"
  /\ \E t \in request[r].at .. now :
       /\ ShouldPersist(t)
       /\ lastSave' = t
       /\ early' = (early \/ \E g \in granted : t \in g - Interval + 1 .. g + Interval - 1)
       /\ granted' = granted \cup {t}
       /\ newest' = Max({newest, t})
       /\ overtaken' = (overtaken \/ t < newest)
       /\ request' = [request EXCEPT ![r].phase = "granted", ![r].at = t]
  /\ UNCHANGED <<now, device, telemetry, traffic>>

(* Seeded fault: the grant is given back whoever holds it now.              *)
ForgetAny(t) == lastSave' = Never

\* Forget gives back the grant, unless a later one has taken its place.
Forget(t) == lastSave' = IF lastSave = t THEN Never ELSE lastSave

\* The update of the device's row, or the insertion of the heartbeat's, fails.
UpdateFails(r) ==
  /\ request[r].phase = "granted"
  /\ Forget(request[r].at)
  /\ granted' = granted \ {request[r].at}
  /\ request' = [request EXCEPT ![r] = Idle]
  /\ UNCHANGED <<now, device, telemetry, early, newest, overtaken, traffic>>

TrafficCounterReset(s) ==
  \/ s.rx < stored.rx \/ s.tx < stored.tx
  \/ s.boot # NoBootId /\ stored.boot # NoBootId /\ s.boot # stored.boot

(* Seeded fault: the first sample counts what the interface moved before.   *)
FirstSampleCounts(s) ==
  /\ stored = NoSample
  /\ base' = s.at /\ counted' = s.rx + s.tx

\* The first sample is where counting starts.
FirstSample(s) ==
  /\ stored = NoSample
  /\ base' = s.at /\ counted' = counted

NextSample(s) ==
  /\ stored # NoSample
  /\ counted' = IF TrafficCounterReset(s) THEN counted
                ELSE counted + (s.rx - stored.rx) + (s.tx - stored.tx)
  /\ base' = base

AfterTraffic(r) == IF request[r].phase = "registered" THEN Idle
                   ELSE [request[r] EXCEPT !.phase = "mark", !.sample = NoSample]

Older(s, t) == s.at < t.at \/ s.restarts < t.restarts

\* The rows of the device and of the heartbeat are written, and then
\* RecordHeartbeatSample is run: one transaction.
RecordTraffic(r) ==
  /\ request[r].phase \in {"granted", "registered"}
  /\ LET s == request[r].sample
     IN /\ FirstSample(s) \/ NextSample(s)
        /\ late' = (late \/ (stored # NoSample /\ Older(s, stored)))
        /\ stored' = s
  /\ request' = [request EXCEPT ![r] = AfterTraffic(r)]
  /\ UNCHANGED <<now, device, telemetry, sampler>>

\* The transaction fails, which is only logged.
RecordTrafficFails(r) ==
  /\ request[r].phase \in {"granted", "registered"}
  /\ request' = [request EXCEPT ![r] = AfterTraffic(r)]
  /\ UNCHANGED <<now, device, telemetry, sampler, traffic>>

\* MarkPersisted sets the time the handler began with.
MarkPersisted(r) ==
  /\ request[r].phase = "mark"
  /\ lastSave' = request[r].at
  /\ overtaken' = (overtaken \/ request[r].at < lastSave)
  /\ request' = [request EXCEPT ![r] = Idle]
  /\ UNCHANGED <<now, device, telemetry, granted, early, newest, traffic>>

TelemetryNext ==
  \/ Tick \/ Move \/ Restart
  \/ \E r \in Requests :
       \/ Post(r) \/ Register(r)
       \/ HeartbeatOnly(r) \/ GrantSample(r) \/ UpdateFails(r)
       \/ RecordTraffic(r) \/ RecordTrafficFails(r) \/ MarkPersisted(r)

TelemetrySpec == TelemetryInit /\ [][TelemetryNext]_telemetryVars

-----------------------------------------------------------------------------
(* What the accounts tell.                                                 *)

\* The days together never count a byte that did not pass after the first
\* sample, and count all of them up to the last one when the counters never
\* started over; both unless a sample was stored after a later one
\* (RecordHeartbeatSample takes it for a reset and counts the bytes between
\* the two again with the next sample).
CountedBytesPassed ==
  ~late /\ stored # NoSample =>
           /\ counted <= stored.at - base
           /\ restarts = 0 => counted = stored.at - base

\* Two samples are kept within one interval only after a slow handler came to
\* the sampler behind one that began later (Forget does not restore the time
\* before, MarkPersisted sets it back), however many heartbeats fail in between.
SamplesAreSpaced == early => overtaken
=============================================================================
