------------------------ MODULE TunnelManagerProofs ------------------------
(***************************************************************************)
(* Proofs about what the server knows of a device: the counters it reports *)
(* (Telemetry), and its tunnel (TunnelManager), for any connections,       *)
(* openers, role plans and channel capacity.  The heart of the argument    *)
(* about the tunnel is ownership: a connection belongs to at most one      *)
(* item, an item that some goroutine is closing has left the map for good, *)
(* and what an opener or a handler closes on its own belongs to no item.   *)
(***************************************************************************)
EXTENDS TunnelManager, Telemetry, FiniteSetTheorems, TLAPS

-----------------------------------------------------------------------------
(* Telemetry: what is counted, and how often samples are kept.               *)
(*                                                                           *)
(* The accounts go by the difference of two samples, whichever handlers they *)
(* came through.  SamplesAgree says that any two samples in play, also those *)
(* no handler has stored yet, are readings of one pair of counters in order. *)
(* The sampler forgets: what it remembers is not the last sample but what a  *)
(* failed handler gave back or a slow one set.  GrantsAreSpaced is what is   *)
(* left of its memory while no handler was overtaken.                        *)

\* The samples the client, the handlers and the accounts hold, and the counters
\* as they are.
Samples ==
  {Current} \cup (({telemetry, stored} \cup {request[r].sample : r \in Requests}) \ {NoSample})

\* Two samples of one run of the counters differ by what moved between them; of a
\* later run, the second counts nothing that moved before the first.
Consistent(s, t) ==
  /\ s.restarts = t.restarts /\ s.at <= t.at =>
       /\ s.rx <= t.rx /\ s.tx <= t.tx
       /\ (t.rx - s.rx) + (t.tx - s.tx) = t.at - s.at
  /\ s.restarts < t.restarts => s.at + t.rx + t.tx <= t.at

Truthful(s) ==
  /\ s.at <= moved /\ s.restarts <= restarts
  /\ s.rx + s.tx <= s.at
  /\ restarts = 0 => s.rx + s.tx = s.at /\ s.boot = bootId

SamplesAgree ==
  /\ \A s \in Samples : Truthful(s)
  /\ \A s, t \in Samples : Consistent(s, t)

\* A handler that has a time to go by, or a sample to store.
HandlersHold ==
  \A r \in Requests :
    /\ request[r].phase \in {"sent", "granted", "mark"} => request[r].at \in Time
    /\ request[r].phase \in {"sent", "granted", "registered"} => request[r].sample # NoSample

\* While no handler was overtaken, the samples granted are an interval before the
\* newest, and the sampler remembers the newest unless it was given back.
GrantsAreSpaced ==
  ~overtaken =>
    /\ ~early
    /\ \A g \in granted : g = newest \/ g + Interval <= newest
    /\ newest \in granted => lastSave = newest

\* Counting starts with the first sample.
NothingCounted == stored = NoSample => counted = 0

GrantsArePast ==
  \A r \in Requests : request[r].phase \in {"granted", "mark"} => request[r].at <= newest

TelemetryInductive ==
  /\ TelemetryTypeOK /\ bootId <= restarts + 1 /\ HandlersHold
  /\ SamplesAgree /\ NothingCounted /\ CountedBytesPassed
  /\ GrantsArePast /\ GrantsAreSpaced

-----------------------------------------------------------------------------
(* The samples *)

RequestState == [phase: Phases, sample: Sample \cup {NoSample}, at: Time \cup {Never}]

LEMMA SamplesType ==
  ASSUME TelemetryTypeOK
  PROVE  Samples \subseteq Sample
<1>1. Current \in Sample BY DEF Current, Sample, TelemetryTypeOK
<1>2. \A r \in Requests : request[r].sample \in Sample \cup {NoSample}
  BY DEF TelemetryTypeOK
<1> QED BY <1>1, <1>2 DEF Samples, TelemetryTypeOK

LEMMA InSamples ==
  /\ Current \in Samples
  /\ telemetry # NoSample => telemetry \in Samples
  /\ stored # NoSample => stored \in Samples
  /\ \A r \in Requests : request[r].sample # NoSample => request[r].sample \in Samples
BY DEF Samples

\* A step that only hands samples on.
LEMMA SamplesShrink ==
  ASSUME SamplesAgree, UNCHANGED device, Samples' \subseteq Samples
  PROVE  SamplesAgree'
<1>1. \A s \in Samples : Truthful(s)' BY DEF SamplesAgree, Truthful, device
<1> QED BY <1>1 DEF SamplesAgree, Consistent

\* Who holds a sample after the step, held it or had it at hand.
LEMMA SamplesHanded ==
  ASSUME UNCHANGED device,
         telemetry' \in Samples \cup {NoSample}, stored' \in Samples \cup {NoSample},
         \A r \in Requests : request'[r].sample \in Samples \cup {NoSample}
  PROVE  Samples' \subseteq Samples
<1>1. Current' = Current BY DEF device, Current
<1> QED BY <1>1 DEF Samples

LEMMA MoveAgrees ==
  ASSUME TelemetryTypeOK, SamplesAgree, Move
  PROVE  SamplesAgree'
<1>1. /\ moved \in Nat /\ rx \in Nat /\ tx \in Nat /\ restarts \in Nat
      /\ bootId \in Nat
  BY TelemetryAssumption DEF TelemetryTypeOK, Bytes
<1>2. /\ moved' = moved + 1 /\ restarts' = restarts /\ bootId' = bootId
      /\ \/ rx' = rx + 1 /\ tx' = tx
         \/ tx' = tx + 1 /\ rx' = rx
  BY DEF Move
<1>3. Samples' \subseteq {Current'} \cup Samples
  BY DEF Samples, Move, traffic
<1>4. /\ Current.rx = rx /\ Current.tx = tx /\ Current.at = moved
      /\ Current.restarts = restarts /\ Current.boot = bootId
      /\ Current'.rx = rx' /\ Current'.tx = tx' /\ Current'.at = moved'
      /\ Current'.restarts = restarts' /\ Current'.boot = bootId'
  BY DEF Current
<1>5. rx + tx <= moved /\ (restarts = 0 => rx + tx = moved)
  <2>1. Truthful(Current) BY InSamples DEF SamplesAgree
  <2> QED BY <1>4, <2>1 DEF Truthful
<1>10. /\ moved' <= moved' /\ restarts' <= restarts' /\ rx' + tx' <= moved'
       /\ restarts' = 0 => rx' + tx' = moved'
  BY <1>1, <1>2, <1>5
<1>6. Truthful(Current)' BY <1>4, <1>10 DEF Truthful
<1>7. ASSUME NEW s \in Samples
      PROVE  Truthful(s)' /\ Consistent(s, Current') /\ Consistent(Current', s)
  <2>1. s \in Sample BY SamplesType
  <2>2. s.at \in Nat /\ s.restarts \in Nat /\ s.rx \in Nat /\ s.tx \in Nat
    BY <2>1, TelemetryAssumption DEF Sample, Bytes
  <2>3. Truthful(s) /\ Consistent(s, Current) BY InSamples DEF SamplesAgree
  <2>4. s.at <= moved /\ s.restarts <= restarts BY <2>3 DEF Truthful
  <2>5. Truthful(s)' BY <1>1, <1>2, <2>2, <2>3 DEF Truthful
  <2>6. Consistent(s, Current')
    <3>1. /\ s.restarts = restarts /\ s.at <= moved =>
               /\ s.rx <= rx /\ s.tx <= tx
               /\ (rx - s.rx) + (tx - s.tx) = moved - s.at
          /\ s.restarts < restarts => s.at + rx + tx <= moved
      BY <1>4, <2>3 DEF Consistent
    <3>2. s.restarts = restarts' => /\ s.rx <= rx' /\ s.tx <= tx'
                                    /\ (rx' - s.rx) + (tx' - s.tx) = moved' - s.at
      BY <1>1, <1>2, <2>2, <2>4, <3>1
    <3>3. s.restarts < restarts' => s.at + rx' + tx' <= moved'
      BY <1>1, <1>2, <2>2, <2>4, <3>1
    <3> QED BY <1>4, <3>2, <3>3 DEF Consistent
  <2>7. Consistent(Current', s)
    BY <1>1, <1>2, <1>4, <2>2, <2>4 DEF Consistent
  <2> QED BY <2>5, <2>6, <2>7
<1>8. Consistent(Current', Current')
  <2>1. /\ rx' <= rx' /\ tx' <= tx' /\ (rx' - rx') + (tx' - tx') = moved' - moved'
        /\ ~(restarts' < restarts')
    BY <1>1, <1>2
  <2> QED BY <1>4, <2>1 DEF Consistent
<1> QED BY <1>3, <1>6, <1>7, <1>8 DEF SamplesAgree, Consistent

LEMMA RestartAgrees ==
  ASSUME TelemetryTypeOK, SamplesAgree, Restart
  PROVE  SamplesAgree'
<1>1. /\ moved \in Nat /\ rx \in Nat /\ tx \in Nat /\ restarts \in Nat
  BY TelemetryAssumption DEF TelemetryTypeOK, Bytes
<1>2. moved' = moved /\ restarts' = restarts + 1 /\ rx' = 0 /\ tx' = 0
  BY DEF Restart
<1>3. Samples' \subseteq {Current'} \cup Samples
  BY DEF Samples, Restart, traffic
<1>4. /\ Current.at = moved /\ Current.restarts = restarts
      /\ Current'.rx = rx' /\ Current'.tx = tx' /\ Current'.at = moved'
      /\ Current'.restarts = restarts' /\ Current'.boot = bootId'
  BY DEF Current
<1>6. Truthful(Current)' BY <1>1, <1>2, <1>4 DEF Truthful
<1>7. ASSUME NEW s \in Samples
      PROVE  Truthful(s)' /\ Consistent(s, Current') /\ Consistent(Current', s)
  <2>1. s \in Sample BY SamplesType
  <2>2. s.at \in Nat /\ s.restarts \in Nat /\ s.rx \in Nat /\ s.tx \in Nat
    BY <2>1, TelemetryAssumption DEF Sample, Bytes
  <2>3. Truthful(s) BY DEF SamplesAgree
  <2>4. s.at <= moved /\ s.restarts <= restarts BY <2>3 DEF Truthful
  <2>5. Truthful(s)' BY <1>1, <1>2, <2>2, <2>3 DEF Truthful
  <2>6. Consistent(s, Current')
    BY <1>1, <1>2, <1>4, <2>2, <2>4 DEF Consistent
  <2>7. Consistent(Current', s)
    BY <1>1, <1>2, <1>4, <2>2, <2>4 DEF Consistent
  <2> QED BY <2>5, <2>6, <2>7
<1>8. Consistent(Current', Current') BY <1>1, <1>2, <1>4 DEF Consistent
<1> QED BY <1>3, <1>6, <1>7, <1>8 DEF SamplesAgree, Consistent

-----------------------------------------------------------------------------
(* The accounts *)

LEMMA RecordCounts ==
  ASSUME TelemetryTypeOK, HandlersHold, SamplesAgree, NothingCounted, CountedBytesPassed,
         NEW r \in Requests, RecordTraffic(r)
  PROVE  /\ CountedBytesPassed' /\ NothingCounted'
         /\ counted' \in Nat /\ base' \in Bytes /\ stored' \in Sample
<1> DEFINE s == request[r].sample
<1>1. s # NoSample /\ s \in Sample /\ stored' = s
  BY DEF RecordTraffic, HandlersHold, TelemetryTypeOK
<1>2. s.at \in Nat /\ s.restarts \in Nat /\ s.rx \in Nat /\ s.tx \in Nat /\ s.at \in Bytes
  BY <1>1, TelemetryAssumption DEF Sample, Bytes
<1>3. s \in Samples BY <1>1 DEF Samples
<1>4. restarts' = restarts /\ counted \in Nat /\ base \in Bytes /\ base \in Nat
  BY TelemetryAssumption DEF RecordTraffic, device, TelemetryTypeOK, Bytes
<1>5. late' <=> (late \/ (stored # NoSample /\ Older(s, stored)))
  BY DEF RecordTraffic, TelemetryTypeOK
<1> HIDE DEF s
<1>6. CASE FirstSample(s)
  <2>1. base' = s.at /\ counted' = counted /\ counted = 0
    BY <1>6 DEF FirstSample, NothingCounted
  <2> QED BY <1>1, <1>2, <2>1 DEF CountedBytesPassed, NothingCounted
<1>7. CASE NextSample(s)
  <2>1. stored # NoSample /\ base' = base /\ stored \in Sample /\ stored \in Samples
    BY <1>7, InSamples DEF NextSample, TelemetryTypeOK
  <2>2. stored.at \in Nat /\ stored.restarts \in Nat /\ stored.rx \in Nat /\ stored.tx \in Nat
    BY <2>1, TelemetryAssumption DEF Sample, Bytes
  <2>3. counted' = IF TrafficCounterReset(s) THEN counted
                   ELSE counted + (s.rx - stored.rx) + (s.tx - stored.tx)
    BY <1>7 DEF NextSample
  <2>4. ~TrafficCounterReset(s) => s.rx >= stored.rx /\ s.tx >= stored.tx
    BY <1>2, <2>2 DEF TrafficCounterReset
  <2>5. counted' \in Nat
    <3>1. CASE TrafficCounterReset(s) BY <1>4, <2>3, <3>1
    <3>2. CASE ~TrafficCounterReset(s)
      <4>1. s.rx - stored.rx \in Nat /\ s.tx - stored.tx \in Nat BY <1>2, <2>2, <2>4, <3>2
      <4> QED BY <1>4, <2>3, <3>2, <4>1
    <3> QED BY <3>1, <3>2
  <2>6. ASSUME ~late'
        PROVE  counted' <= s.at - base /\ (restarts = 0 => counted' = s.at - base)
    <3>1. ~late /\ ~Older(s, stored) BY <1>5, <2>1, <2>6
    <3>2. s.at >= stored.at /\ s.restarts >= stored.restarts
      BY <1>2, <2>2, <3>1 DEF Older
    <3>3. /\ counted <= stored.at - base
          /\ restarts = 0 => counted = stored.at - base
      BY <2>1, <3>1 DEF CountedBytesPassed
    <3>4. Consistent(stored, s) /\ Truthful(s) /\ Truthful(stored)
      BY <1>3, <2>1 DEF SamplesAgree
    <3>5. CASE restarts = 0
      <4>1. s.restarts = 0 /\ stored.restarts = 0 /\ s.boot = stored.boot
        BY <1>2, <2>2, <3>4, <3>5 DEF Truthful
      <4>2. /\ stored.rx <= s.rx /\ stored.tx <= s.tx
            /\ (s.rx - stored.rx) + (s.tx - stored.tx) = s.at - stored.at
        BY <3>2, <3>4, <4>1 DEF Consistent
      <4>3. ~TrafficCounterReset(s) BY <1>2, <2>2, <4>1, <4>2 DEF TrafficCounterReset
      <4> QED BY <1>2, <1>4, <2>2, <2>3, <3>3, <3>5, <4>2, <4>3
    <3>6. CASE restarts # 0 /\ TrafficCounterReset(s)
      BY <1>2, <1>4, <2>2, <2>3, <3>2, <3>3, <3>6
    <3>7. CASE restarts # 0 /\ ~TrafficCounterReset(s)
      <4>1. (s.rx - stored.rx) + (s.tx - stored.tx) <= s.at - stored.at
        BY <1>2, <2>2, <3>2, <3>4 DEF Consistent
      <4> QED BY <1>2, <1>4, <2>2, <2>3, <3>3, <3>7, <4>1
    <3> QED BY <3>5, <3>6, <3>7
  <2> QED BY <1>1, <1>4, <2>1, <2>5, <2>6 DEF CountedBytesPassed, NothingCounted
<1> QED BY <1>6, <1>7 DEF RecordTraffic, s

\* The accounts are those of the samples stored.
LEMMA CountsKept ==
  ASSUME CountedBytesPassed, NothingCounted, UNCHANGED traffic,
         restarts' = 0 => restarts = 0
  PROVE  CountedBytesPassed' /\ NothingCounted'
BY DEF CountedBytesPassed, NothingCounted, traffic

-----------------------------------------------------------------------------
(* The sampler *)

Spacing == GrantsArePast /\ GrantsAreSpaced

LEMMA NewestOfTwo ==
  ASSUME NEW a \in Nat, NEW b \in Nat
  PROVE  /\ Max({a, b}) \in {a, b} /\ Max({a, b}) >= a /\ Max({a, b}) >= b
<1>1. \E x \in {a, b} : \A y \in {a, b} : x >= y BY Z3
<1>2. Max({a, b}) \in {a, b} /\ \A y \in {a, b} : Max({a, b}) >= y
  BY <1>1, Zenon DEF Max
<1> QED BY <1>2

LEMMA TimesType ==
  ASSUME TelemetryTypeOK
  PROVE  /\ Time \subseteq Nat \ {0} /\ now \in Nat /\ lastSave \in Nat /\ newest \in Nat
         /\ granted \subseteq Nat \ {0} /\ Interval \in Nat
BY TelemetryAssumption DEF TelemetryTypeOK, Time, Never

LEMMA SpacingKept ==
  ASSUME Spacing, UNCHANGED sampler,
         \A r \in Requests : request'[r].phase \in {"granted", "mark"} =>
            request[r].phase \in {"granted", "mark"} /\ request'[r].at = request[r].at
  PROVE  Spacing'
<1>1. GrantsArePast' BY DEF Spacing, GrantsArePast, sampler
<1>2. GrantsAreSpaced' BY DEF Spacing, GrantsAreSpaced, sampler
<1> QED BY <1>1, <1>2 DEF Spacing

LEMMA GrantSpaces ==
  ASSUME TelemetryTypeOK, HandlersHold, Spacing, NEW r \in Requests, GrantSample(r)
  PROVE  /\ Spacing' /\ lastSave' \in Time /\ newest' \in Time /\ granted' \subseteq Time
         /\ request' \in [Requests -> RequestState] /\ request'[r].at \in Time
         /\ request'[r].phase = "granted" /\ request'[r].sample = request[r].sample
         /\ \A q \in Requests \ {r} : request'[q] = request[q]
<1>1. PICK t \in request[r].at .. now :
        /\ ShouldPersist(t) /\ lastSave' = t
        /\ early' = (early \/ \E g \in granted : t \in g - Interval + 1 .. g + Interval - 1)
        /\ granted' = granted \cup {t}
        /\ newest' = Max({newest, t})
        /\ overtaken' = (overtaken \/ t < newest)
        /\ request' = [request EXCEPT ![r] = [request[r] EXCEPT !.phase = "granted", !.at = t]]
  BY DEF GrantSample, TelemetryTypeOK
<1>2. request[r].phase = "sent" /\ request[r].at \in Time /\ request[r] \in RequestState
  BY DEF GrantSample, HandlersHold, TelemetryTypeOK, RequestState
<1>3. t \in Time /\ t \in Nat /\ t # 0
  BY <1>2, TimesType, TelemetryAssumption DEF TelemetryTypeOK, Time
<1>4. /\ newest' \in {newest, t} /\ newest' >= newest /\ newest' >= t
  BY <1>1, <1>3, TimesType, NewestOfTwo
<1>5. newest \in Nat /\ lastSave \in Nat /\ Interval \in Nat BY TimesType
<1>6. newest' \in Time
  BY <1>3, <1>4, <1>5 DEF TelemetryTypeOK, Never, Time
<1>7. [request[r] EXCEPT !.phase = "granted", !.at = t] \in RequestState
  BY <1>2, <1>3 DEF RequestState, Phases
<1>8. /\ request' \in [Requests -> RequestState]
      /\ request'[r] = [request[r] EXCEPT !.phase = "granted", !.at = t]
      /\ \A q \in Requests \ {r} : request'[q] = request[q]
  BY <1>1, <1>7 DEF TelemetryTypeOK, RequestState
<1>9. request'[r].at = t /\ request'[r].phase = "granted" /\ request'[r].sample = request[r].sample
  BY <1>2, <1>8 DEF RequestState
<1>10. GrantsArePast'
  <2>1. \A q \in Requests : request[q].at \in Nat
    BY TelemetryAssumption DEF TelemetryTypeOK, Time, Never
  <2>2. \A q \in Requests \ {r} :
           request'[q].phase \in {"granted", "mark"} => request'[q].at <= newest
    BY <1>8 DEF Spacing, GrantsArePast
  <2>3. newest' \in Nat BY <1>3, <1>4, <1>5
  <2>4. \A q \in Requests \ {r} :
           request'[q].phase \in {"granted", "mark"} => request'[q].at <= newest'
    BY <1>4, <1>5, <1>8, <2>1, <2>2, <2>3
  <2> QED BY <1>4, <1>9, <2>4 DEF GrantsArePast
<1>11. GrantsAreSpaced'
  <2> SUFFICES ASSUME ~overtaken' PROVE
                 /\ ~early'
                 /\ \A g \in granted' : g = newest' \/ g + Interval <= newest'
                 /\ newest' \in granted' => lastSave' = newest'
    BY DEF GrantsAreSpaced
  <2>1. ~overtaken /\ ~(t < newest) BY <1>1
  <2>2. newest' = t BY <1>3, <1>4, <1>5, <2>1
  <2>3. ASSUME NEW g \in granted PROVE g + Interval <= t
    <3>1. g \in Nat \ {0} BY TimesType
    <3>2. CASE g = newest
      <4>1. lastSave = newest BY <2>1, <3>2 DEF Spacing, GrantsAreSpaced
      <4>2. t - lastSave >= Interval BY <1>1, <3>1, <3>2, <4>1 DEF ShouldPersist, Never
      <4> QED BY <1>3, <1>5, <3>1, <3>2, <4>1, <4>2
    <3>3. CASE g # newest
      <4>1. g + Interval <= newest BY <2>1, <3>3 DEF Spacing, GrantsAreSpaced
      <4> QED BY <1>3, <1>5, <2>1, <3>1, <4>1
    <3> QED BY <3>2, <3>3
  <2>4. ~early'
    <3>1. ~early BY <2>1 DEF Spacing, GrantsAreSpaced
    <3>2. ASSUME NEW g \in granted PROVE t \notin g - Interval + 1 .. g + Interval - 1
      BY <1>3, <1>5, <2>3, TimesType
    <3> QED BY <1>1, <3>1, <3>2
  <2> QED BY <1>1, <2>2, <2>3, <2>4
<1> QED BY <1>1, <1>3, <1>6, <1>8, <1>9, <1>10, <1>11 DEF Spacing, TelemetryTypeOK

LEMMA ForgetSpaces ==
  ASSUME TelemetryTypeOK, HandlersHold, Spacing, NEW r \in Requests, UpdateFails(r)
  PROVE  Spacing' /\ lastSave' \in Time \cup {Never} /\ granted' \subseteq Time
<1>1. /\ lastSave' = IF lastSave = request[r].at THEN Never ELSE lastSave
      /\ granted' = granted \ {request[r].at}
      /\ UNCHANGED <<early, newest, overtaken>>
      /\ request' = [request EXCEPT ![r] = Idle]
  BY DEF UpdateFails, Forget
<1>2. \A q \in Requests : request'[q] = request[q] \/ request'[q] = Idle
  BY <1>1 DEF TelemetryTypeOK
<1>3. GrantsArePast' BY <1>1, <1>2 DEF Spacing, GrantsArePast, Idle
<1>4. GrantsAreSpaced' BY <1>1 DEF Spacing, GrantsAreSpaced
<1> QED BY <1>1, <1>3, <1>4 DEF Spacing, TelemetryTypeOK

LEMMA MarkSpaces ==
  ASSUME TelemetryTypeOK, HandlersHold, Spacing, NEW r \in Requests, MarkPersisted(r)
  PROVE  Spacing' /\ lastSave' \in Time
<1>1. /\ request[r].phase = "mark" /\ lastSave' = request[r].at
      /\ overtaken' = (overtaken \/ request[r].at < lastSave)
      /\ UNCHANGED <<granted, early, newest>>
      /\ request' = [request EXCEPT ![r] = Idle]
  BY DEF MarkPersisted
<1>2. \A q \in Requests : request'[q] = request[q] \/ request'[q] = Idle
  BY <1>1 DEF TelemetryTypeOK
<1>3. GrantsArePast' BY <1>1, <1>2 DEF Spacing, GrantsArePast, Idle
<1>4. request[r].at \in Time /\ request[r].at \in Nat /\ request[r].at <= newest
  BY <1>1, TimesType DEF HandlersHold, Spacing, GrantsArePast
<1>5. GrantsAreSpaced'
  <2>1. ASSUME newest \in granted, ~overtaken' PROVE lastSave' = newest
    <3>1. lastSave = newest BY <1>1, <2>1 DEF Spacing, GrantsAreSpaced
    <3>2. ~(request[r].at < lastSave) BY <1>1, <2>1
    <3>3. newest \in Nat BY TimesType
    <3> QED BY <1>1, <1>4, <3>1, <3>2, <3>3
  <2> QED BY <1>1, <2>1 DEF Spacing, GrantsAreSpaced
<1> QED BY <1>1, <1>3, <1>4, <1>5 DEF Spacing

-----------------------------------------------------------------------------
(* The steps *)

LEMMA DeviceSteps ==
  ASSUME TelemetryInductive, Tick \/ Move \/ Restart
  PROVE  TelemetryInductive'
<1>1. TelemetryTypeOK /\ SamplesAgree /\ bootId <= restarts + 1 BY DEF TelemetryInductive
<1>2. /\ moved \in Nat /\ rx \in Nat /\ tx \in Nat /\ restarts \in Nat /\ bootId \in Nat
      /\ moved <= MaxBytes /\ bootId <= MaxBoots + 1
  BY <1>1, TelemetryAssumption DEF TelemetryTypeOK, Bytes
<1>3. UNCHANGED <<request, sampler, traffic>> BY DEF Tick, Move, Restart
<1>4. rx + tx <= moved
  <2>1. Truthful(Current) BY <1>1, InSamples DEF SamplesAgree
  <2> QED BY <2>1 DEF Truthful, Current
<1>5. /\ now' \in Time /\ rx' \in Bytes /\ tx' \in Bytes /\ moved' \in Bytes
      /\ bootId' \in 0 .. MaxBoots + 1 /\ restarts' \in 0 .. MaxBoots
      /\ bootId' <= restarts' + 1
      /\ telemetry' \in Sample \cup {NoSample}
      /\ restarts' = 0 => restarts = 0
  <2>1. CASE Tick
    BY <1>1, <2>1, TelemetryAssumption DEF Tick, TelemetryTypeOK, Time, device
  <2>2. CASE Move
    <3>1. moved' = moved + 1 /\ moved < MaxBytes BY <2>2 DEF Move
    <3>2. CASE rx' = rx + 1 /\ tx' = tx
      BY <1>1, <1>2, <1>4, <2>2, <3>1, <3>2, TelemetryAssumption
      DEF Move, TelemetryTypeOK, Bytes
    <3>3. CASE tx' = tx + 1 /\ rx' = rx
      BY <1>1, <1>2, <1>4, <2>2, <3>1, <3>3, TelemetryAssumption
      DEF Move, TelemetryTypeOK, Bytes
    <3> QED BY <2>2, <3>2, <3>3 DEF Move
  <2>3. CASE Restart
    <3>1. /\ restarts' = restarts + 1 /\ restarts < MaxBoots
          /\ bootId' = bootId \/ bootId' = NoBootId \/ bootId' = bootId + 1
      BY <2>3 DEF Restart
    <3>2. /\ restarts' \in 0 .. MaxBoots /\ bootId' <= restarts' + 1
          /\ bootId' \in 0 .. MaxBoots + 1
      BY <1>1, <1>2, <3>1, TelemetryAssumption DEF NoBootId
    <3>3. rx' \in Bytes /\ tx' \in Bytes
      BY <2>3, TelemetryAssumption DEF Restart, Bytes
    <3> QED BY <1>1, <1>2, <2>3, <3>1, <3>2, <3>3 DEF Restart, TelemetryTypeOK
  <2> QED BY <2>1, <2>2, <2>3
<1>6. TelemetryTypeOK'
  BY <1>1, <1>3, <1>5 DEF TelemetryTypeOK, sampler, traffic
<1>7. SamplesAgree'
  <2>1. CASE Tick
    <3>1. UNCHANGED <<device, telemetry, stored, request>> BY <2>1 DEF Tick, traffic
    <3>2. Samples' \subseteq Samples BY <3>1 DEF Samples, Current, device
    <3> QED BY <1>1, <3>1, <3>2, SamplesShrink
  <2> QED BY <1>1, <2>1, MoveAgrees, RestartAgrees
<1>8. HandlersHold' BY <1>3 DEF TelemetryInductive, HandlersHold
<1>9. CountedBytesPassed' /\ NothingCounted'
  BY <1>3, <1>5, CountsKept DEF TelemetryInductive
<1>10. Spacing' BY <1>3, SpacingKept DEF TelemetryInductive, Spacing
<1> QED BY <1>5, <1>6, <1>7, <1>8, <1>9, <1>10 DEF TelemetryInductive, Spacing

\* A handler goes on: what it holds is typed, and handed on.
LEMMA HandlerGoesOn ==
  ASSUME TelemetryTypeOK, HandlersHold, SamplesAgree, NEW r \in Requests, NEW q,
         request' = [request EXCEPT ![r] = q], q \in RequestState,
         q.phase \in {"sent", "granted", "mark"} => q.at \in Time,
         q.phase \in {"sent", "granted", "registered"} => q.sample # NoSample,
         q.sample \in Samples \cup {NoSample},
         UNCHANGED device,
         telemetry' \in Samples \cup {NoSample}, stored' \in Samples \cup {NoSample}
  PROVE  /\ HandlersHold' /\ SamplesAgree'
         /\ request' \in [Requests -> RequestState]
         /\ telemetry' \in Sample \cup {NoSample} /\ stored' \in Sample \cup {NoSample}
<1>1. request' \in [Requests -> RequestState]
  BY DEF TelemetryTypeOK, RequestState
<1>2. request'[r] = q /\ \A p \in Requests \ {r} : request'[p] = request[p]
  BY DEF TelemetryTypeOK
<1>3. HandlersHold' BY <1>2 DEF HandlersHold
<1>4. \A p \in Requests : request'[p].sample \in Samples \cup {NoSample}
  BY <1>2, InSamples
<1>5. SamplesAgree' BY <1>4, SamplesHanded, SamplesShrink
<1> QED BY <1>1, <1>3, <1>5, SamplesType

LEMMA IdleIs == Idle \in RequestState /\ Idle.phase = "idle" /\ Idle.sample = NoSample
BY DEF Idle, RequestState, Phases

LEMMA ClientSteps ==
  ASSUME TelemetryInductive, NEW r \in Requests, Post(r) \/ Register(r)
  PROVE  TelemetryInductive'
<1>1. TelemetryTypeOK /\ SamplesAgree /\ HandlersHold BY DEF TelemetryInductive
<1>2. PICK q : /\ request' = [request EXCEPT ![r] = q]
               /\ q \in RequestState /\ q.phase \in {"sent", "registered"}
               /\ q.phase \in {"sent", "granted", "mark"} => q.at \in Time
               /\ q.sample \in Samples
               /\ telemetry' \in Samples \cup {NoSample}
  <2>1. CASE Post(r)
    <3>1. PICK s \in {Current} \cup ({telemetry} \ {NoSample}) :
            /\ telemetry' = s
            /\ request' = [request EXCEPT ![r] = [phase |-> "sent", sample |-> s, at |-> now]]
      BY <2>1 DEF Post
    <3>2. s \in Samples /\ s \in Sample BY <1>1, InSamples, SamplesType
    <3>3. now \in Time BY <1>1 DEF TelemetryTypeOK
    <3> DEFINE q == [phase |-> "sent", sample |-> s, at |-> now]
    <3>4. q \in RequestState BY <3>2, <3>3 DEF RequestState, Phases
    <3>5. /\ request' = [request EXCEPT ![r] = q] /\ q.phase = "sent" /\ q.at \in Time
          /\ q.sample \in Samples
      BY <3>1, <3>2, <3>3
    <3> HIDE DEF q
    <3> QED BY <3>1, <3>2, <3>4, <3>5
  <2>2. CASE Register(r)
    <3> DEFINE q == [Idle EXCEPT !.phase = "registered", !.sample = Current]
    <3>2. request' = [request EXCEPT ![r] = q] /\ UNCHANGED telemetry
      BY <2>2 DEF Register
    <3>3. Current \in Sample BY <1>1, InSamples, SamplesType
    <3>4. q \in RequestState BY <3>3, IdleIs DEF RequestState, Phases
    <3>5. q.phase = "registered" /\ q.sample \in Samples
      BY InSamples, IdleIs DEF RequestState
    <3> HIDE DEF q
    <3> QED BY <3>2, <3>4, <3>5, InSamples
  <2> QED BY <2>1, <2>2
<1>3. UNCHANGED <<now, device, sampler, traffic>> BY DEF Post, Register
<1>4. q.sample # NoSample BY <1>1, <1>2, SamplesType, NoSampleAssumption
<1>5. stored' \in Samples \cup {NoSample} BY <1>3, InSamples DEF traffic
<1>6. /\ HandlersHold' /\ SamplesAgree' /\ request' \in [Requests -> RequestState]
      /\ telemetry' \in Sample \cup {NoSample}
  BY <1>1, <1>2, <1>3, <1>4, <1>5, HandlerGoesOn
<1>7. TelemetryTypeOK'
  BY <1>1, <1>3, <1>6 DEF TelemetryTypeOK, RequestState, device, sampler, traffic
<1>8. CountedBytesPassed' /\ NothingCounted'
  BY <1>3, CountsKept DEF TelemetryInductive, device
<1>9. Spacing'
  <2>1. \A p \in Requests : request'[p].phase \in {"granted", "mark"} =>
           request[p].phase \in {"granted", "mark"} /\ request'[p].at = request[p].at
    BY <1>1, <1>2 DEF TelemetryTypeOK
  <2> QED BY <1>3, <2>1, SpacingKept DEF TelemetryInductive, Spacing
<1>10. (bootId <= restarts + 1)' BY <1>3 DEF TelemetryInductive, device
<1> QED BY <1>6, <1>7, <1>8, <1>9, <1>10 DEF TelemetryInductive, Spacing

\* A handler ends, whatever became of its sample.
LEMMA HandlerIsDone ==
  ASSUME TelemetryInductive, NEW r \in Requests,
         HeartbeatOnly(r) \/ UpdateFails(r) \/ MarkPersisted(r)
  PROVE  TelemetryInductive'
<1>1. TelemetryTypeOK /\ SamplesAgree /\ HandlersHold BY DEF TelemetryInductive
<1>2. /\ request' = [request EXCEPT ![r] = Idle]
      /\ UNCHANGED <<now, device, telemetry, traffic>>
  BY DEF HeartbeatOnly, UpdateFails, MarkPersisted
<1>3. HandlersHold' /\ SamplesAgree' /\ request' \in [Requests -> RequestState]
  BY <1>1, <1>2, InSamples, IdleIs, HandlerGoesOn DEF traffic
<1>4. Spacing' /\ lastSave' \in Time \cup {Never} /\ granted' \subseteq Time
      /\ newest' \in Time \cup {Never} /\ early' \in BOOLEAN /\ overtaken' \in BOOLEAN
  <2>1. CASE HeartbeatOnly(r)
    <3>1. UNCHANGED sampler BY <2>1 DEF HeartbeatOnly
    <3>2. \A p \in Requests : request'[p].phase \in {"granted", "mark"} =>
             request[p].phase \in {"granted", "mark"} /\ request'[p].at = request[p].at
      BY <1>1, <1>2, IdleIs DEF TelemetryTypeOK
    <3>3. Spacing' BY <3>1, <3>2, SpacingKept DEF TelemetryInductive, Spacing
    <3> QED BY <1>1, <3>1, <3>3 DEF TelemetryTypeOK, sampler
  <2>2. CASE UpdateFails(r)
    BY <1>1, <2>2, ForgetSpaces DEF TelemetryInductive, Spacing, UpdateFails, TelemetryTypeOK
  <2>3. CASE MarkPersisted(r)
    BY <1>1, <2>3, MarkSpaces DEF TelemetryInductive, Spacing, MarkPersisted, TelemetryTypeOK
  <2> QED BY <2>1, <2>2, <2>3
<1>5. TelemetryTypeOK'
  BY <1>1, <1>2, <1>3, <1>4 DEF TelemetryTypeOK, RequestState, device, traffic
<1>6. CountedBytesPassed' /\ NothingCounted'
  BY <1>2, CountsKept DEF TelemetryInductive, device
<1>7. (bootId <= restarts + 1)' BY <1>2 DEF TelemetryInductive, device
<1> QED BY <1>3, <1>4, <1>5, <1>6, <1>7 DEF TelemetryInductive, Spacing

LEMMA HandlerIsGranted ==
  ASSUME TelemetryInductive, NEW r \in Requests, GrantSample(r)
  PROVE  TelemetryInductive'
<1>1. TelemetryTypeOK /\ SamplesAgree /\ HandlersHold /\ Spacing
  BY DEF TelemetryInductive, Spacing
<1>2. /\ Spacing' /\ lastSave' \in Time /\ newest' \in Time /\ granted' \subseteq Time
      /\ request' \in [Requests -> RequestState] /\ request'[r].at \in Time
      /\ request'[r].phase = "granted" /\ request'[r].sample = request[r].sample
      /\ \A q \in Requests \ {r} : request'[q] = request[q]
  BY <1>1, GrantSpaces
<1>3. UNCHANGED <<now, device, telemetry, traffic>> /\ request[r].phase = "sent"
  BY DEF GrantSample
<1>4. early' \in BOOLEAN /\ overtaken' \in BOOLEAN
  BY <1>1 DEF GrantSample, TelemetryTypeOK
<1>5. TelemetryTypeOK'
  BY <1>1, <1>2, <1>3, <1>4 DEF TelemetryTypeOK, RequestState, device, traffic
<1>6. HandlersHold' BY <1>1, <1>2, <1>3 DEF HandlersHold
<1>7. SamplesAgree'
  <2>1. \A p \in Requests : request'[p].sample \in Samples \cup {NoSample}
    BY <1>2, InSamples
  <2>2. telemetry' \in Samples \cup {NoSample} /\ stored' \in Samples \cup {NoSample}
    BY <1>3, InSamples DEF traffic
  <2> QED BY <1>1, <1>3, <2>1, <2>2, SamplesHanded, SamplesShrink
<1>8. CountedBytesPassed' /\ NothingCounted'
  BY <1>3, CountsKept DEF TelemetryInductive, device
<1>9. (bootId <= restarts + 1)' BY <1>3 DEF TelemetryInductive, device
<1> QED BY <1>2, <1>5, <1>6, <1>7, <1>8, <1>9 DEF TelemetryInductive, Spacing

LEMMA HandlerRecords ==
  ASSUME TelemetryInductive, NEW r \in Requests, RecordTraffic(r) \/ RecordTrafficFails(r)
  PROVE  TelemetryInductive'
<1>1. TelemetryTypeOK /\ SamplesAgree /\ HandlersHold BY DEF TelemetryInductive
<1>2. /\ request' = [request EXCEPT ![r] = AfterTraffic(r)]
      /\ request[r].phase \in {"granted", "registered"}
      /\ UNCHANGED <<now, device, telemetry, sampler>>
  BY DEF RecordTraffic, RecordTrafficFails
<1>3. request[r] \in RequestState BY <1>1 DEF TelemetryTypeOK, RequestState
<1>4. /\ AfterTraffic(r) \in RequestState
      /\ AfterTraffic(r).phase \in {"idle", "mark"} /\ AfterTraffic(r).sample = NoSample
      /\ AfterTraffic(r).phase = "mark" =>
           request[r].phase = "granted" /\ AfterTraffic(r).at = request[r].at
  <2>1. CASE request[r].phase = "registered" BY <2>1, IdleIs DEF AfterTraffic
  <2>2. CASE request[r].phase # "registered"
    <3>1. AfterTraffic(r) = [request[r] EXCEPT !.phase = "mark", !.sample = NoSample]
      BY <2>2 DEF AfterTraffic
    <3> QED BY <1>2, <1>3, <2>2, <3>1 DEF RequestState, Phases
  <2> QED BY <2>1, <2>2
<1>5. /\ stored' \in Samples \cup {NoSample}
      /\ counted' \in Nat /\ base' \in Bytes /\ late' \in BOOLEAN
      /\ CountedBytesPassed' /\ NothingCounted'
  <2>1. CASE RecordTraffic(r)
    <3>1. stored' = request[r].sample /\ late' \in BOOLEAN
      BY <1>1, <2>1 DEF RecordTraffic, TelemetryTypeOK
    <3> QED BY <1>1, <2>1, <3>1, InSamples, RecordCounts DEF TelemetryInductive
  <2>2. CASE RecordTrafficFails(r)
    <3>1. UNCHANGED traffic BY <2>2 DEF RecordTrafficFails
    <3>2. CountedBytesPassed' /\ NothingCounted'
      BY <1>2, <3>1, CountsKept DEF TelemetryInductive, device
    <3> QED BY <1>1, <3>1, <3>2, InSamples DEF TelemetryTypeOK, traffic
  <2> QED BY <2>1, <2>2
<1>6. AfterTraffic(r).phase \in {"sent", "granted", "mark"} => AfterTraffic(r).at \in Time
  BY <1>1, <1>2, <1>4 DEF HandlersHold
<1>7. /\ HandlersHold' /\ SamplesAgree' /\ request' \in [Requests -> RequestState]
      /\ telemetry' \in Sample \cup {NoSample} /\ stored' \in Sample \cup {NoSample}
  BY <1>1, <1>2, <1>4, <1>5, <1>6, InSamples, HandlerGoesOn
<1>8. TelemetryTypeOK'
  BY <1>1, <1>2, <1>5, <1>7 DEF TelemetryTypeOK, RequestState, device, sampler
<1>9. Spacing'
  <2>1. \A p \in Requests : request'[p].phase \in {"granted", "mark"} =>
           request[p].phase \in {"granted", "mark"} /\ request'[p].at = request[p].at
    BY <1>1, <1>2, <1>4 DEF TelemetryTypeOK
  <2> QED BY <1>2, <2>1, SpacingKept DEF TelemetryInductive, Spacing
<1>10. (bootId <= restarts + 1)' BY <1>2 DEF TelemetryInductive, device
<1> QED BY <1>5, <1>7, <1>8, <1>9, <1>10 DEF TelemetryInductive, Spacing

LEMMA TelemetryStart == TelemetryInit => TelemetryInductive
<1> SUFFICES ASSUME TelemetryInit PROVE TelemetryInductive
  OBVIOUS
<1>1. /\ now = 1 /\ rx = 0 /\ tx = 0 /\ moved = 0 /\ restarts = 0 /\ bootId \in {0, 1}
      /\ telemetry = NoSample /\ stored = NoSample /\ counted = 0 /\ base = 0 /\ ~late
      /\ lastSave = Never /\ granted = {} /\ ~early /\ newest = Never /\ ~overtaken
      /\ \A r \in Requests : request[r] = Idle
  BY DEF TelemetryInit, NoBootId
<1>2. request \in [Requests -> RequestState] BY IdleIs DEF TelemetryInit
<1>3. /\ now \in Time /\ 0 \in Bytes /\ bootId \in 0 .. MaxBoots + 1 /\ 0 \in 0 .. MaxBoots
  BY <1>1, TelemetryAssumption DEF Time, Bytes
<1>4. TelemetryTypeOK
  <2>1. {rx, tx, moved, base} \subseteq Bytes BY <1>1, <1>3
  <2>2. {telemetry, stored} \subseteq Sample \cup {NoSample} BY <1>1
  <2>3. {late, early, overtaken} \subseteq BOOLEAN BY DEF TelemetryInit
  <2> QED BY <1>1, <1>2, <1>3, <2>1, <2>2, <2>3 DEF TelemetryTypeOK, RequestState
<1>5. HandlersHold BY <1>1, IdleIs DEF HandlersHold
<1>6. Samples = {Current} BY <1>1, IdleIs DEF Samples
<1>7. SamplesAgree
  <2>1. /\ Current.at = 0 /\ Current.restarts = 0 /\ Current.rx = 0 /\ Current.tx = 0
        /\ Current.boot = bootId
    BY <1>1 DEF Current
  <2>2. Truthful(Current) BY <1>1, <2>1 DEF Truthful
  <2>3. Consistent(Current, Current) BY <2>1 DEF Consistent
  <2> QED BY <1>6, <2>2, <2>3 DEF SamplesAgree
<1>8. GrantsArePast /\ GrantsAreSpaced BY <1>1, IdleIs DEF GrantsArePast, GrantsAreSpaced
<1>9. NothingCounted /\ CountedBytesPassed BY <1>1 DEF NothingCounted, CountedBytesPassed
<1>10. bootId <= restarts + 1 BY <1>1
<1> QED BY <1>4, <1>5, <1>7, <1>8, <1>9, <1>10 DEF TelemetryInductive

LEMMA TelemetryStutters ==
  ASSUME TelemetryInductive, UNCHANGED telemetryVars
  PROVE  TelemetryInductive'
<1>1. UNCHANGED <<now, device, telemetry, request, sampler, traffic>> BY DEF telemetryVars
<1>2. TelemetryTypeOK'
  BY <1>1 DEF TelemetryInductive, TelemetryTypeOK, device, sampler, traffic
<1>3. Samples' \subseteq Samples BY <1>1 DEF Samples, Current, device, traffic
<1>4. SamplesAgree' BY <1>1, <1>3, SamplesShrink DEF TelemetryInductive
<1>5. HandlersHold' BY <1>1 DEF TelemetryInductive, HandlersHold
<1>6. CountedBytesPassed' /\ NothingCounted'
  BY <1>1, CountsKept DEF TelemetryInductive, device
<1>7. Spacing' BY <1>1, SpacingKept DEF TelemetryInductive, Spacing
<1>8. (bootId <= restarts + 1)' BY <1>1 DEF TelemetryInductive, device
<1> QED BY <1>2, <1>4, <1>5, <1>6, <1>7, <1>8 DEF TelemetryInductive, Spacing

\* The samples in play are readings of one pair of counters, in order, and while
\* no handler was overtaken the sampler's grants keep their distance.
THEOREM TelemetryInvariant == TelemetrySpec => []TelemetryInductive
<1>1. TelemetryInductive /\ [TelemetryNext]_telemetryVars => TelemetryInductive'
  BY DeviceSteps, ClientSteps, HandlerIsDone, HandlerIsGranted, HandlerRecords, TelemetryStutters
  DEF TelemetryNext
<1> QED BY <1>1, TelemetryStart, PTL DEF TelemetrySpec

\* Unless a sample was stored after a later one, no byte is counted that did not
\* pass after the first, and all are while the counters never started over.
THEOREM TrafficIsCounted == TelemetrySpec => []CountedBytesPassed
<1>1. TelemetryInductive => CountedBytesPassed BY DEF TelemetryInductive
<1> QED BY <1>1, TelemetryInvariant, PTL

\* Two samples within one interval mean that a handler was overtaken.
THEOREM SamplesKeepDistance == TelemetrySpec => []SamplesAreSpaced
<1>1. TelemetryInductive => SamplesAreSpaced
  BY DEF TelemetryInductive, GrantsAreSpaced, SamplesAreSpaced
<1> QED BY <1>1, TelemetryInvariant, PTL

-----------------------------------------------------------------------------
(* TunnelManager.                                                            *)

\* A connection that has not said hello is known to nobody.
FreshUnknown ==
  \A c \in Conns : pc[c] = "hello" =>
    /\ items[c] = EmptyItem
    /\ current # c
    /\ c \notin closed
    /\ \A i \in Conns : c \notin Members(i)
    /\ \A t \in Threads : victim[t] # c
    /\ \A o \in Openers : held[o] # c

\* A connection has one place in one item.
MembersDisjoint ==
  /\ \A i, j \in Conns : i # j => Members(i) \cap Members(j) = {}
  /\ \A i \in Conns : items[i].tcpControl \notin items[i].tcpData

\* An item being closed is out of the map, and after the first part of the
\* closing only its channel is left to empty.
VictimRetired ==
  \A t \in Threads :
    /\ pc[t] \in {"close", "drain"} => victim[t] \in Conns /\ victim[t] # current
    /\ pc[t] = "drain" => Members(victim[t]) \ items[victim[t]].tcpData \subseteq closed

\* What a goroutine closes outside an item belongs to no item.
HeldApart ==
  \A o \in Openers : \A i \in Conns : held[o] # None => held[o] \notin Members(i)

ReplacedApart ==
  \A c \in Conns : pc[c] = "closeData" =>
    victim[c] \in Conns /\ \A i \in Conns : victim[c] \notin Members(i)

HeldOnce ==
  \A o, p \in Openers : held[o] = held[p] /\ held[o] # None => o = p

\* An opener in the middle of an attempt works on a snapshot of some item.
SnapshotTaken ==
  \A o \in Openers :
    /\ pc[o] \in {"try", "ack", "fallback"} => snap[o].item \in Conns
    /\ pc[o] = "ack" => held[o] # None

Ownership ==
  /\ FreshUnknown /\ MembersDisjoint /\ VictimRetired
  /\ HeldApart /\ ReplacedApart /\ HeldOnce /\ SnapshotTaken

IInv == TypeOK /\ Ownership /\ CurrentNotClosed /\ RetiredTunnelsClosed

LEMMA InitIInv == Init => IInv
<1> SUFFICES ASSUME Init PROVE IInv
  OBVIOUS
<1> USE ConnsAssumption, ThreadsAssumption, RolePlansAssumption
<1>1. TypeOK
  BY DEF Init, TypeOK, Item, EmptyItem, Snapshot, NoSnapshot, RoleValues, Conns, Threads
<1>2. \A i \in Conns : Members(i) = {} /\ ~Controlled(i)
  BY DEF Init, Members, Controlled, EmptyItem
<1>3. Ownership
  BY <1>2 DEF Init, EmptyItem, Ownership, FreshUnknown, MembersDisjoint, VictimRetired, HeldApart,
     ReplacedApart, HeldOnce, SnapshotTaken, Conns, Threads
<1>4. CurrentNotClosed /\ RetiredTunnelsClosed
  BY <1>2 DEF Init, CurrentNotClosed, RetiredTunnelsClosed
<1> QED BY <1>1, <1>3, <1>4 DEF IInv

-----------------------------------------------------------------------------
(* One lemma per action.                                                   *)

LEMMA HelloRejectedStep ==
  ASSUME IInv, NEW c \in Conns, HelloRejected(c)
  PROVE  IInv'
<1> USE DEF HelloRejected, IInv, Ownership
<1> USE ConnsAssumption, ThreadsAssumption
<1>1. TypeOK'
  BY DEF TypeOK, Conns, Threads
<1>2. \A i \in Conns : Members(i)' = Members(i) /\ (Controlled(i)' <=> Controlled(i))
  BY DEF Members, Controlled
<1>3. FreshUnknown'
  BY <1>2 DEF FreshUnknown, TypeOK, Threads
<1>4. MembersDisjoint' /\ HeldApart' /\ HeldOnce'
  BY <1>2 DEF MembersDisjoint, HeldApart, HeldOnce
<1>5. VictimRetired'
  BY <1>2 DEF VictimRetired, TypeOK, Threads
<1>6. ReplacedApart' /\ SnapshotTaken'
  BY <1>2 DEF ReplacedApart, SnapshotTaken, TypeOK, Threads
<1>7. CurrentNotClosed'
  BY <1>2 DEF CurrentNotClosed, FreshUnknown, TypeOK
<1>8. RetiredTunnelsClosed'
  BY <1>2 DEF RetiredTunnelsClosed, Closing, TypeOK, Threads
<1> QED BY <1>1, <1>3, <1>4, <1>5, <1>6, <1>7, <1>8

LEMMA ReplaceItemStep ==
  ASSUME IInv, NEW c \in Conns, NEW item \in Item, ReplaceItem(c, item),
         item.tcpData = {}, {item.control, item.data, item.tcpControl} \subseteq {c, None}
  PROVE  IInv'
<1> USE DEF ReplaceItem, IInv, Ownership
<1> USE ConnsAssumption, ThreadsAssumption
<1>1. TypeOK'
  BY DEF TypeOK, Conns, Threads, Overlapping
<1>2. /\ Members(c)' \subseteq {c}
      /\ \A i \in Conns \ {c} : Members(i)' = Members(i) /\ (Controlled(i)' <=> Controlled(i))
  BY DEF Members, Controlled, TypeOK
<1>3. FreshUnknown'
  BY <1>2 DEF FreshUnknown, TypeOK, Threads
<1>4. MembersDisjoint'
  BY <1>2 DEF MembersDisjoint, FreshUnknown, TypeOK, Item
<1>5. HeldApart' /\ HeldOnce'
  BY <1>2 DEF HeldApart, HeldOnce, FreshUnknown
<1>6. VictimRetired'
  BY <1>2 DEF VictimRetired, TypeOK, Threads, FreshUnknown
<1>7. ReplacedApart' /\ SnapshotTaken'
  BY <1>2 DEF ReplacedApart, SnapshotTaken, FreshUnknown, TypeOK, Threads
<1>8. CurrentNotClosed'
  BY <1>2 DEF CurrentNotClosed, FreshUnknown, TypeOK
<1>9. RetiredTunnelsClosed'
  BY <1>2 DEF RetiredTunnelsClosed, Closing, TypeOK, Threads
<1> QED BY <1>1, <1>3, <1>4, <1>5, <1>6, <1>7, <1>8, <1>9
\* The item leaves the map; its closer keeps it from then on.
LEMMA RetireStep ==
  ASSUME IInv, NEW t \in Threads, current # None, Retire(t),
         pc[t] \in {"serving", "idle", "fallback"},
         UNCHANGED <<items, role, closed, held, rows>>,
         snap' \in [Openers -> Snapshot],
         \A o \in Openers : snap'[o] = snap[o] \/ pc'[o] = "close"
  PROVE  IInv'
<1> USE DEF IInv, Ownership, Retire
<1> USE ConnsAssumption, ThreadsAssumption
<1>1. TypeOK'
  BY DEF TypeOK, Conns, Threads, Overlapping
<1>2. \A i \in Conns : Members(i)' = Members(i) /\ (Controlled(i)' <=> Controlled(i))
  BY DEF Members, Controlled, TypeOK, Overlapping
<1>3. FreshUnknown'
  BY <1>2 DEF FreshUnknown, TypeOK, Threads
<1>4. MembersDisjoint'
  BY <1>2 DEF MembersDisjoint, FreshUnknown, TypeOK, Item
<1>5. HeldApart' /\ HeldOnce'
  BY <1>2 DEF HeldApart, HeldOnce, FreshUnknown, TypeOK
<1>6. VictimRetired'
  BY <1>2 DEF VictimRetired, TypeOK, Threads, FreshUnknown
<1>7. ReplacedApart' /\ SnapshotTaken'
  BY <1>2 DEF ReplacedApart, SnapshotTaken, FreshUnknown, TypeOK, Threads
<1>8. CurrentNotClosed'
  BY <1>2 DEF CurrentNotClosed, FreshUnknown, TypeOK
<1>9. RetiredTunnelsClosed'
  BY <1>2 DEF RetiredTunnelsClosed, Closing, TypeOK, Threads
<1> QED BY <1>1, <1>3, <1>4, <1>5, <1>6, <1>7, <1>8, <1>9

\* Nothing moves but a goroutine that closes nothing.
LEMMA QuietStep ==
  ASSUME IInv, NEW t \in Threads, NEW l, pc' = [pc EXCEPT ![t] = l],
         pc[t] \notin {"close", "drain"}, l \in {"serving", "done", "idle", "record", "fallback", "session"},
         l = "fallback" => pc[t] \in {"try", "ack"},
         UNCHANGED <<current, items, role, closed, held, victim>>,
         rows' \in [Conns -> {"none", "enabled", "disabled", "swept"}],
         snap' \in [Openers -> Snapshot], overlap' \in BOOLEAN,
         \A o \in Openers : snap'[o] = snap[o] \/ pc'[o] = "idle"
  PROVE  IInv'
<1> USE DEF IInv, Ownership
<1> USE ConnsAssumption, ThreadsAssumption
<1>1. TypeOK'
  BY DEF TypeOK, Conns, Threads
<1>2. \A i \in Conns : Members(i)' = Members(i) /\ (Controlled(i)' <=> Controlled(i))
  BY DEF Members, Controlled, TypeOK
<1>3. FreshUnknown'
  BY <1>2 DEF FreshUnknown, TypeOK, Threads
<1>4. MembersDisjoint'
  BY <1>2 DEF MembersDisjoint, FreshUnknown, TypeOK, Item
<1>5. HeldApart' /\ HeldOnce'
  BY <1>2 DEF HeldApart, HeldOnce, FreshUnknown, TypeOK
<1>6. VictimRetired'
  BY <1>2 DEF VictimRetired, TypeOK, Threads, FreshUnknown
<1>7. ReplacedApart' /\ SnapshotTaken'
  BY <1>2 DEF ReplacedApart, SnapshotTaken, FreshUnknown, TypeOK, Threads
<1>8. CurrentNotClosed'
  BY <1>2 DEF CurrentNotClosed, FreshUnknown, TypeOK
<1>9. RetiredTunnelsClosed'
  BY <1>2 DEF RetiredTunnelsClosed, Closing, TypeOK, Threads
<1> QED BY <1>1, <1>3, <1>4, <1>5, <1>6, <1>7, <1>8, <1>9

\* Stop finds the map empty.
LEMMA NothingToCloseStep ==
  ASSUME IInv, CloseAll, current = None
  PROVE  IInv'
<1> USE DEF IInv, Ownership, CloseAll
<1> USE ConnsAssumption, ThreadsAssumption
<1>1. TypeOK'
  BY DEF TypeOK, Conns, Threads
<1>2. \A i \in Conns : Members(i)' = Members(i) /\ (Controlled(i)' <=> Controlled(i))
  BY DEF Members, Controlled
<1>3. FreshUnknown'
  BY <1>2 DEF FreshUnknown, TypeOK, Threads
<1>4. MembersDisjoint' /\ HeldApart' /\ HeldOnce' /\ CurrentNotClosed'
  BY <1>2 DEF MembersDisjoint, HeldApart, HeldOnce, CurrentNotClosed
<1>5. VictimRetired' /\ ReplacedApart' /\ SnapshotTaken'
  BY <1>2 DEF VictimRetired, ReplacedApart, SnapshotTaken, TypeOK, Threads
<1>6. RetiredTunnelsClosed'
  BY <1>2 DEF RetiredTunnelsClosed, Closing, TypeOK, Threads
<1> QED BY <1>1, <1>3, <1>4, <1>5, <1>6

LEMMA CloseReplacedDataStep ==
  ASSUME IInv, NEW c \in Conns, CloseReplacedData(c)
  PROVE  IInv'
<1> USE DEF IInv, Ownership, CloseReplacedData
<1> USE ConnsAssumption, ThreadsAssumption
<1>1. TypeOK'
  BY DEF TypeOK, ReplacedApart, Conns, Threads
<1>2. \A i \in Conns : Members(i)' = Members(i) /\ (Controlled(i)' <=> Controlled(i))
  BY DEF Members, Controlled, TypeOK
<1>3. FreshUnknown'
  BY <1>2 DEF FreshUnknown, TypeOK, Threads, ReplacedApart
<1>4. MembersDisjoint'
  BY <1>2 DEF MembersDisjoint, FreshUnknown, ReplacedApart
<1>5. HeldApart' /\ HeldOnce'
  BY <1>2 DEF HeldApart, HeldOnce, FreshUnknown, TypeOK, ReplacedApart
<1>6. VictimRetired'
  BY <1>2 DEF VictimRetired, TypeOK, Threads, FreshUnknown, ReplacedApart
<1>7. ReplacedApart' /\ SnapshotTaken'
  BY <1>2 DEF ReplacedApart, SnapshotTaken, FreshUnknown, TypeOK, Threads, ReplacedApart
<1>8. CurrentNotClosed'
  BY <1>2 DEF CurrentNotClosed, FreshUnknown, TypeOK, ReplacedApart
<1>9. RetiredTunnelsClosed'
  BY <1>2 DEF RetiredTunnelsClosed, Closing, TypeOK, Threads, ReplacedApart
<1> QED BY <1>1, <1>3, <1>4, <1>5, <1>6, <1>7, <1>8, <1>9

LEMMA CloseItemStep ==
  ASSUME IInv, NEW t \in Threads, CloseItem(t)
  PROVE  IInv'
<1> USE DEF IInv, Ownership, CloseItem
<1> USE ConnsAssumption, ThreadsAssumption
<1>1. TypeOK'
  BY DEF TypeOK, Conns, Threads, Members, Item, VictimRetired
<1>2. \A i \in Conns : Members(i)' = Members(i) /\ (Controlled(i)' <=> Controlled(i))
  BY DEF Members, Controlled, TypeOK, Conns, Item
<1>3. FreshUnknown'
  BY <1>2 DEF FreshUnknown, VictimRetired, TypeOK, Threads
<1>4. MembersDisjoint'
  BY <1>2 DEF MembersDisjoint, FreshUnknown, TypeOK, Item
<1>5. HeldApart' /\ HeldOnce'
  BY <1>2 DEF HeldApart, HeldOnce, FreshUnknown, TypeOK
<1>6. VictimRetired'
  BY <1>2 DEF VictimRetired, Members, TypeOK, Threads, FreshUnknown
<1>7. ReplacedApart' /\ SnapshotTaken'
  BY <1>2 DEF ReplacedApart, SnapshotTaken, FreshUnknown, TypeOK, Threads
<1>8. CurrentNotClosed'
  BY <1>2 DEF CurrentNotClosed, VictimRetired, MembersDisjoint, TypeOK
<1>9. RetiredTunnelsClosed'
  BY <1>2 DEF RetiredTunnelsClosed, Closing, TypeOK, Threads
<1> QED BY <1>1, <1>3, <1>4, <1>5, <1>6, <1>7, <1>8, <1>9

LEMMA DrainItemStep ==
  ASSUME IInv, NEW t \in Threads, DrainItem(t)
  PROVE  IInv'
<1> USE DEF IInv, Ownership, DrainItem
<1> USE ConnsAssumption, ThreadsAssumption
<1>0. PICK c \in items[victim[t]].tcpData :
        /\ items' = [items EXCEPT ![victim[t]].tcpData = @ \ {c}]
        /\ closed' = closed \cup {c}
  OBVIOUS
<1>a. victim[t] \in Conns /\ victim[t] # current /\ c \in Members(victim[t])
  BY DEF VictimRetired, Members
<1>1. TypeOK'
  BY DEF TypeOK, Conns, Threads, Item, VictimRetired
<1>2. \A i \in Conns : Members(i)' \subseteq Members(i) /\ (Controlled(i)' <=> Controlled(i))
  BY DEF Members, Controlled, TypeOK, Conns, Item
<1>3. FreshUnknown'
  BY <1>0, <1>a, <1>2 DEF FreshUnknown, TypeOK, Threads
<1>4. MembersDisjoint'
  BY <1>2 DEF MembersDisjoint, FreshUnknown, TypeOK, Item
<1>5. HeldApart' /\ HeldOnce'
  BY <1>2 DEF HeldApart, HeldOnce, FreshUnknown, TypeOK
<1>6. VictimRetired'
  BY <1>2 DEF VictimRetired, TypeOK, Threads, FreshUnknown
<1>7. ReplacedApart' /\ SnapshotTaken'
  BY <1>2 DEF ReplacedApart, SnapshotTaken, FreshUnknown, TypeOK, Threads
<1>8. CurrentNotClosed'
  BY <1>0, <1>a, <1>2 DEF CurrentNotClosed, MembersDisjoint, TypeOK
<1>9. RetiredTunnelsClosed'
  BY <1>2 DEF RetiredTunnelsClosed, Closing, TypeOK, Threads
<1> QED BY <1>1, <1>3, <1>4, <1>5, <1>6, <1>7, <1>8, <1>9

LEMMA TakeDataConnStep ==
  ASSUME IInv, NEW o \in Openers, TakeDataConn(o)
  PROVE  IInv'
<1> USE DEF IInv, Ownership, TakeDataConn
<1> USE ConnsAssumption, ThreadsAssumption
<1>0. PICK c \in items[snap[o].item].tcpData :
        /\ items' = [items EXCEPT ![snap[o].item].tcpData = @ \ {c}]
        /\ held' = [held EXCEPT ![o] = c]
        /\ pc' = [pc EXCEPT ![o] = "ack"]
  OBVIOUS
<1>u. pc[o] = "try" /\ UNCHANGED <<current, role, victim, closed, snap, rows, overlap>>
  OBVIOUS
<1> HIDE DEF TakeDataConn
<1>a. snap[o].item \in Conns /\ c \in Members(snap[o].item) /\ c \in TConns
  BY <1>0, <1>u DEF SnapshotTaken, Members, TypeOK, Item
<1>1. TypeOK'
  BY <1>0, <1>u DEF TypeOK, Conns, Threads, Item, SnapshotTaken
<1>2. \A i \in Conns : Members(i)' \subseteq Members(i) /\ (Controlled(i)' <=> Controlled(i))
  BY <1>0, <1>u, <1>a DEF Members, Controlled, TypeOK, Conns, Item
<1>3. FreshUnknown'
  <2> SUFFICES ASSUME NEW d \in Conns, pc'[d] = "hello"
               PROVE  /\ items'[d] = EmptyItem /\ current' # d /\ d \notin closed'
                      /\ \A i \in Conns : d \notin Members(i)'
                      /\ \A t \in Threads : victim'[t] # d
                      /\ \A p \in Openers : held'[p] # d
    BY DEF FreshUnknown
  <2>1. pc[d] = "hello"
    BY <1>0 DEF TypeOK, Threads
  <2>2. d # snap[o].item /\ d # c
    BY <2>1, <1>0, <1>a DEF FreshUnknown, EmptyItem
  <2> QED BY <2>1, <2>2, <1>0, <1>u, <1>a, <1>2 DEF FreshUnknown, TypeOK
<1>4. MembersDisjoint'
  BY <1>0, <1>u, <1>a, <1>2 DEF MembersDisjoint, FreshUnknown, TypeOK, Item
<1>b. \A i \in Conns : c \notin Members(i)'
  <2> SUFFICES ASSUME NEW i \in Conns PROVE c \notin Members(i)'
    OBVIOUS
  <2>1. CASE i = snap[o].item
    BY <1>0, <1>u, <1>a, <2>1 DEF Members, MembersDisjoint, TypeOK, Item, Conns
  <2>2. CASE i # snap[o].item
    BY <1>a, <1>2, <2>2 DEF MembersDisjoint
  <2> QED BY <2>1, <2>2
<1>5. HeldApart' /\ HeldOnce'
  BY <1>0, <1>u, <1>a, <1>b, <1>2 DEF HeldApart, HeldOnce, TypeOK
<1>6. VictimRetired'
  BY <1>0, <1>u, <1>a, <1>b, <1>2 DEF VictimRetired, TypeOK, Threads, Item
<1>7. ReplacedApart' /\ SnapshotTaken'
  BY <1>0, <1>u, <1>a, <1>2 DEF ReplacedApart, SnapshotTaken, TypeOK, Threads, Conns
<1>8. CurrentNotClosed'
  BY <1>0, <1>u, <1>a, <1>2 DEF CurrentNotClosed, FreshUnknown, TypeOK
<1>9. RetiredTunnelsClosed'
  BY <1>0, <1>u, <1>a, <1>2 DEF RetiredTunnelsClosed, Closing, TypeOK, Threads
<1> QED BY <1>1, <1>3, <1>4, <1>5, <1>6, <1>7, <1>8, <1>9

LEMMA OpenRefusedStep ==
  ASSUME IInv, NEW o \in Openers, OpenRefused(o)
  PROVE  IInv'
<1> USE DEF IInv, Ownership, OpenRefused
<1> USE ConnsAssumption, ThreadsAssumption
<1>1. TypeOK'
  BY DEF TypeOK, Conns, Threads, SnapshotTaken
<1>2. \A i \in Conns : Members(i)' = Members(i) /\ (Controlled(i)' <=> Controlled(i))
  BY DEF Members, Controlled, TypeOK, Conns, Item
<1>3. FreshUnknown'
  BY <1>2 DEF FreshUnknown, TypeOK, Threads
<1>4. MembersDisjoint'
  BY <1>2 DEF MembersDisjoint, FreshUnknown, TypeOK, Item
<1>5. HeldApart' /\ HeldOnce'
  BY <1>2 DEF HeldApart, HeldOnce, FreshUnknown, TypeOK
<1>6. VictimRetired'
  BY <1>2 DEF VictimRetired, TypeOK, Threads, FreshUnknown
<1>7. ReplacedApart' /\ SnapshotTaken'
  BY <1>2 DEF ReplacedApart, SnapshotTaken, FreshUnknown, TypeOK, Threads
<1>8. CurrentNotClosed'
  BY <1>2 DEF CurrentNotClosed, HeldApart, SnapshotTaken, TypeOK
<1>9. RetiredTunnelsClosed'
  BY <1>2 DEF RetiredTunnelsClosed, Closing, TypeOK, Threads
<1> QED BY <1>1, <1>3, <1>4, <1>5, <1>6, <1>7, <1>8, <1>9

LEMMA EndSessionStep ==
  ASSUME IInv, NEW o \in Openers, EndSession(o)
  PROVE  IInv'
<1> USE DEF IInv, Ownership, EndSession, Return
<1> USE ConnsAssumption, ThreadsAssumption
<1>1. TypeOK'
  BY DEF TypeOK, Conns, Threads, Snapshot, NoSnapshot
<1>2. \A i \in Conns : Members(i)' = Members(i) /\ (Controlled(i)' <=> Controlled(i))
  BY DEF Members, Controlled, TypeOK, Conns, Item
<1>3. FreshUnknown'
  BY <1>2 DEF FreshUnknown, TypeOK, Threads
<1>4. MembersDisjoint'
  BY <1>2 DEF MembersDisjoint, FreshUnknown, TypeOK, Item
<1>5. HeldApart' /\ HeldOnce'
  BY <1>2 DEF HeldApart, HeldOnce, FreshUnknown, TypeOK
<1>6. VictimRetired'
  BY <1>2 DEF VictimRetired, TypeOK, Threads, FreshUnknown
<1>7. ReplacedApart' /\ SnapshotTaken'
  BY <1>2 DEF ReplacedApart, SnapshotTaken, FreshUnknown, TypeOK, Threads
<1>8. CurrentNotClosed'
  BY <1>2 DEF CurrentNotClosed, HeldApart, TypeOK
<1>9. RetiredTunnelsClosed'
  BY <1>2 DEF RetiredTunnelsClosed, Closing, TypeOK, Threads
<1> QED BY <1>1, <1>3, <1>4, <1>5, <1>6, <1>7, <1>8, <1>9

LEMMA OpenStreamStep ==
  ASSUME IInv, NEW o \in Openers, OpenStream(o)
  PROVE  IInv'
<1> USE DEF IInv, Ownership, OpenStream
<1> USE ConnsAssumption, ThreadsAssumption
<1>1. TypeOK'
  BY DEF TypeOK, Conns, Threads, Snapshot, Item
<1>2. \A i \in Conns : Members(i)' = Members(i) /\ (Controlled(i)' <=> Controlled(i))
  BY DEF Members, Controlled, TypeOK, Conns, Item
<1>3. FreshUnknown'
  BY <1>2 DEF FreshUnknown, TypeOK, Threads
<1>4. MembersDisjoint'
  BY <1>2 DEF MembersDisjoint, FreshUnknown, TypeOK, Item
<1>5. HeldApart' /\ HeldOnce'
  BY <1>2 DEF HeldApart, HeldOnce, FreshUnknown, TypeOK
<1>6. VictimRetired'
  BY <1>2 DEF VictimRetired, TypeOK, Threads, FreshUnknown
<1>7. ReplacedApart' /\ SnapshotTaken'
  BY <1>2 DEF ReplacedApart, SnapshotTaken, FreshUnknown, TypeOK, Threads
<1>8. CurrentNotClosed'
  BY <1>2 DEF CurrentNotClosed, FreshUnknown, TypeOK
<1>9. RetiredTunnelsClosed'
  BY <1>2 DEF RetiredTunnelsClosed, Closing, TypeOK, Threads
<1> QED BY <1>1, <1>3, <1>4, <1>5, <1>6, <1>7, <1>8, <1>9

LEMMA UnregisterQUICDataStep ==
  ASSUME IInv, NEW c \in Conns, UnregisterQUICData(c)
  PROVE  IInv'
<1> USE DEF IInv, Ownership, UnregisterQUICData
<1> USE ConnsAssumption, ThreadsAssumption
<1>1. TypeOK'
  BY DEF TypeOK, Conns, Threads, Item
<1>2. \A i \in Conns : Members(i)' \subseteq Members(i) /\ (Controlled(i)' <=> Controlled(i))
  BY DEF Members, Controlled, TypeOK, Conns, Item
<1>a. \A i \in Conns \ {current} : items'[i] = items[i] /\ Members(i)' = Members(i)
  BY DEF Members, TypeOK
<1>3. FreshUnknown'
  BY <1>2 DEF FreshUnknown, TypeOK, Threads
<1>4. MembersDisjoint' /\ HeldApart' /\ HeldOnce'
  BY <1>2 DEF MembersDisjoint, HeldApart, HeldOnce, TypeOK, Item
<1>6. VictimRetired'
  BY <1>a DEF VictimRetired, TypeOK, Threads
<1>7. ReplacedApart' /\ SnapshotTaken'
  BY <1>2 DEF ReplacedApart, SnapshotTaken, TypeOK, Threads
<1>8. CurrentNotClosed'
  BY <1>2 DEF CurrentNotClosed, TypeOK
<1>9. RetiredTunnelsClosed'
  BY <1>2, <1>a DEF RetiredTunnelsClosed, Closing, TypeOK, Threads
<1> QED BY <1>1, <1>3, <1>4, <1>6, <1>7, <1>8, <1>9

\* The item a data connection joins, and what it becomes.
LEMMA RegisterQUICDataStep ==
  ASSUME IInv, NEW c \in QConns, RegisterQUICData(c)
  PROVE  IInv'
<1> USE DEF IInv, Ownership
<1> USE ConnsAssumption, ThreadsAssumption
<1>h. pc[c] = "hello" /\ c \in Conns
  BY DEF RegisterQUICData, Conns
<1>i. PICK i \in Conns : i = IF current = None THEN c ELSE current
  BY <1>h DEF TypeOK
<1>r. PICK replaced \in QConns \cup {None} :
        replaced = IF items[i].data # items[i].control THEN items[i].data ELSE None
  BY DEF TypeOK, Item
<1>0. /\ pc[c] = "hello" /\ c \in Conns
      /\ items' = [items EXCEPT ![i].data = c]
      /\ current' = i
      /\ victim' = [victim EXCEPT ![c] = replaced]
      /\ pc' = [pc EXCEPT ![c] = IF replaced = None THEN "serving" ELSE "closeData"]
      /\ UNCHANGED <<role, closed, snap, held, rows, overlap>>
  BY <1>h, <1>i, <1>r DEF RegisterQUICData
<1>b. c \notin Members(i)
  BY <1>0 DEF FreshUnknown
<1>1. TypeOK'
  BY <1>0, <1>b DEF TypeOK, Item, Conns, Threads
<1>2. /\ \A j \in Conns \ {i} : Members(j)' = Members(j) /\ items'[j] = items[j]
      /\ Members(i)' \subseteq Members(i) \cup {c}
      /\ \A j \in Conns : Controlled(j)' <=> Controlled(j)
  <2>1. /\ items' \in [Conns -> Item] /\ items \in [Conns -> Item]
        /\ \A j \in Conns \ {i} : items'[j] = items[j]
        /\ items'[i].control = items[i].control /\ items'[i].tcpControl = items[i].tcpControl
        /\ items'[i].tcpData = items[i].tcpData /\ items'[i].data = c
    BY <1>0, <1>1 DEF TypeOK, Item
  <2>2. \A j \in Conns : Controlled(j)' <=> Controlled(j)
    BY <2>1, <1>0 DEF Controlled
  <2>3. \A j \in Conns \ {i} : Members(j)' = Members(j)
    BY <2>1 DEF Members
  <2>4. Members(i)' \subseteq Members(i) \cup {c}
    BY <2>1 DEF Members
  <2> QED BY <2>1, <2>2, <2>3, <2>4
<1>c. replaced # None => \A j \in Conns : replaced \notin Members(j)'
  <2> SUFFICES ASSUME replaced # None, NEW j \in Conns PROVE replaced \notin Members(j)'
    OBVIOUS
  <2>1. replaced \in Members(i) /\ replaced # c /\ replaced \in QConns
    BY <1>b, <1>r, <1>0 DEF Members
  <2>2. CASE j = i
    <3>1. /\ replaced # items'[i].control /\ items'[i].data = c
          /\ items'[i].tcpControl \in TConns \cup {None} /\ items'[i].tcpData \subseteq TConns
      BY <2>1, <1>0, <1>r DEF TypeOK, Item
    <3>2. replaced # items'[i].tcpControl /\ replaced \notin items'[i].tcpData
      BY <3>1, <2>1
    <3> QED BY <3>1, <3>2, <2>1, <2>2 DEF Members
  <2>3. CASE j # i
    BY <2>1, <2>3, <1>0, <1>2 DEF MembersDisjoint
  <2> QED BY <2>2, <2>3
<1>3. FreshUnknown'
  <2> SUFFICES ASSUME NEW d \in Conns, pc'[d] = "hello"
               PROVE  /\ items'[d] = EmptyItem /\ current' # d /\ d \notin closed'
                      /\ \A j \in Conns : d \notin Members(j)'
                      /\ \A t \in Threads : victim'[t] # d
                      /\ \A p \in Openers : held'[p] # d
    BY DEF FreshUnknown
  <2>1. pc[d] = "hello" /\ d # c
    BY <1>0 DEF TypeOK, Threads
  <2>2. d # i
    BY <2>1, <1>i DEF FreshUnknown
  <2>3. replaced # d
    <3>1. replaced # None => replaced \in Members(i)
      BY <1>0, <1>r DEF Members
    <3> QED BY <3>1, <2>1, <1>0 DEF FreshUnknown
  <2> QED BY <2>1, <2>2, <2>3, <1>0, <1>2 DEF FreshUnknown, TypeOK, Threads
<1>4. MembersDisjoint'
  <2>1. \A j \in Conns : items'[j].tcpControl = items[j].tcpControl /\ items'[j].tcpData = items[j].tcpData
    BY <1>0 DEF TypeOK, Item
  <2>2. \A j \in Conns \ {i} : Members(j)' \cap Members(i)' = {}
    <3> SUFFICES ASSUME NEW j \in Conns \ {i} PROVE Members(j)' \cap Members(i)' = {}
      OBVIOUS
    <3>1. Members(j)' = Members(j) /\ c \notin Members(j) /\ Members(j) \cap Members(i) = {}
      BY <1>0, <1>2 DEF MembersDisjoint, FreshUnknown
    <3> QED BY <3>1, <1>2
  <2>3. \A j, k \in Conns : j # k => Members(j)' \cap Members(k)' = {}
    <3> SUFFICES ASSUME NEW j \in Conns, NEW k \in Conns, j # k
                 PROVE  Members(j)' \cap Members(k)' = {}
      OBVIOUS
    <3>1. CASE j # i /\ k # i
      BY <3>1, <1>2 DEF MembersDisjoint
    <3>2. CASE j = i \/ k = i
      BY <3>2, <2>2
    <3> QED BY <3>1, <3>2
  <2> QED BY <2>1, <2>3 DEF MembersDisjoint
<1>5. HeldApart' /\ HeldOnce'
  <2> SUFFICES ASSUME NEW o \in Openers, NEW j \in Conns, held[o] # None
               PROVE  held[o] \notin Members(j)'
    BY <1>0 DEF HeldApart, HeldOnce
  <2>1. held[o] # c /\ held[o] \notin Members(j)
    BY <1>0 DEF FreshUnknown, HeldApart
  <2> QED BY <2>1, <1>2
<1>6. VictimRetired'
  <2> SUFFICES ASSUME NEW t \in Threads, pc'[t] \in {"close", "drain"}
               PROVE  /\ victim'[t] \in Conns /\ victim'[t] # current'
                      /\ pc'[t] = "drain" =>
                           Members(victim[t])' \ items'[victim[t]].tcpData \subseteq closed'
                      /\ victim'[t] = victim[t]
    BY DEF VictimRetired
  <2>1. t # c /\ pc[t] = pc'[t] /\ victim'[t] = victim[t]
    BY <1>0 DEF TypeOK, Threads
  <2>2. victim[t] \in Conns /\ victim[t] # i
    BY <2>1, <1>0, <1>i DEF VictimRetired, FreshUnknown
  <2> QED BY <2>1, <2>2, <1>0, <1>2 DEF VictimRetired
<1>7. ReplacedApart' /\ SnapshotTaken'
  <2>1. ReplacedApart'
    <3> SUFFICES ASSUME NEW d \in Conns, pc'[d] = "closeData"
                 PROVE  victim'[d] \in Conns /\ \A j \in Conns : victim'[d] \notin Members(j)'
      BY DEF ReplacedApart
    <3>1. CASE d = c
      BY <3>1, <1>0, <1>b, <1>c DEF TypeOK, Threads, Conns
    <3>2. CASE d # c
      <4>1. pc[d] = "closeData" /\ victim'[d] = victim[d]
        BY <3>2, <1>0 DEF TypeOK, Threads
      <4>2. victim[d] # c
        BY <1>0 DEF Threads, FreshUnknown
      <4> QED BY <4>1, <4>2, <1>2 DEF ReplacedApart
    <3> QED BY <3>1, <3>2
  <2>2. SnapshotTaken'
    BY <1>0 DEF SnapshotTaken, TypeOK, Threads
  <2> QED BY <2>1, <2>2
<1>8. CurrentNotClosed'
  BY <1>0, <1>i, <1>2 DEF CurrentNotClosed, FreshUnknown, EmptyItem, Members
<1>9. RetiredTunnelsClosed'
  <2> SUFFICES ASSUME NEW j \in Conns \ {i}, Controlled(j)
               PROVE  Members(j)' \subseteq closed' \/ \E t \in Threads : Closing(t, j)'
    BY <1>0, <1>2 DEF RetiredTunnelsClosed
  <2>1. j # current
    BY <1>i DEF TypeOK
  <2>2. \A t \in Threads : Closing(t, j) => Closing(t, j)'
    BY <1>0 DEF Closing, TypeOK, Threads
  <2> QED BY <2>1, <2>2, <1>0, <1>2 DEF RetiredTunnelsClosed
<1> QED BY <1>1, <1>3, <1>4, <1>5, <1>6, <1>7, <1>8, <1>9

LEMMA RegisterTCPDataStep ==
  ASSUME IInv, NEW c \in TConns, RegisterTCPData(c)
  PROVE  IInv'
<1> USE DEF IInv, Ownership
<1> USE ConnsAssumption, ThreadsAssumption
<1>h. pc[c] = "hello" /\ c \in Conns
  BY DEF RegisterTCPData, Conns
<1>i. PICK i \in Conns : i = IF current = None THEN c ELSE current
  BY <1>h DEF TypeOK
<1>f. PICK full \in BOOLEAN : full <=> Cardinality(items[i].tcpData) >= QueueCap
  <2>1. CASE Cardinality(items[i].tcpData) >= QueueCap
    BY <2>1
  <2>2. CASE ~(Cardinality(items[i].tcpData) >= QueueCap)
    BY <2>2
  <2> QED BY <2>1, <2>2
<1>0. /\ current' = i
      /\ items' = IF full THEN items ELSE [items EXCEPT ![i].tcpData = @ \cup {c}]
      /\ closed' = IF full THEN closed \cup {c} ELSE closed
      /\ pc' = [pc EXCEPT ![c] = "done"]
      /\ UNCHANGED <<role, victim, snap, held, rows, overlap>>
  BY <1>h, <1>i, <1>f DEF RegisterTCPData
<1>b. c \notin closed /\ \A j \in Conns : c \notin Members(j)
  BY <1>h DEF FreshUnknown
\* An item without a channel element has room: a full one is registered.
<1>g. full => i = current
  <2> SUFFICES ASSUME full, i # current PROVE FALSE
    OBVIOUS
  <2>1. items[i].tcpData = {}
    BY <1>i, <1>h DEF FreshUnknown, EmptyItem
  <2>2. Cardinality(items[i].tcpData) = 0
    BY <2>1, FS_EmptySet
  <2> QED BY <2>2, <1>f, QueueCapAssumption
<1>1. TypeOK'
  BY <1>0, <1>h DEF TypeOK, Item, Conns, Threads
<1>2. /\ \A j \in Conns \ {i} : Members(j)' = Members(j) /\ items'[j] = items[j]
      /\ Members(i)' \subseteq Members(i) \cup {c}
      /\ full => Members(i)' = Members(i)
      /\ \A j \in Conns : Controlled(j)' <=> Controlled(j)
  <2>1. /\ \A j \in Conns \ {i} : items'[j] = items[j]
        /\ items'[i].control = items[i].control /\ items'[i].tcpControl = items[i].tcpControl
        /\ items'[i].data = items[i].data
        /\ items'[i].tcpData = IF full THEN items[i].tcpData ELSE items[i].tcpData \cup {c}
    BY <1>0, <1>1 DEF TypeOK, Item
  <2>2. \A j \in Conns : Controlled(j)' <=> Controlled(j)
    BY <2>1, <1>0 DEF Controlled
  <2>3. \A j \in Conns \ {i} : Members(j)' = Members(j)
    BY <2>1 DEF Members
  <2>4. Members(i)' \subseteq Members(i) \cup {c} /\ (full => Members(i)' = Members(i))
    BY <2>1 DEF Members
  <2> QED BY <2>1, <2>2, <2>3, <2>4
<1>3. FreshUnknown'
  <2> SUFFICES ASSUME NEW d \in Conns, pc'[d] = "hello"
               PROVE  /\ items'[d] = EmptyItem /\ current' # d /\ d \notin closed'
                      /\ \A j \in Conns : d \notin Members(j)'
                      /\ \A t \in Threads : victim'[t] # d
                      /\ \A p \in Openers : held'[p] # d
    BY DEF FreshUnknown
  <2>1. pc[d] = "hello" /\ d # c
    BY <1>0 DEF TypeOK, Threads
  <2>2. d # i
    BY <2>1, <1>i DEF FreshUnknown
  <2> QED BY <2>1, <2>2, <1>0, <1>2 DEF FreshUnknown
<1>4. MembersDisjoint'
  <2>1. \A j \in Conns : items'[j].tcpControl \notin items'[j].tcpData
    <3> SUFFICES ASSUME NEW j \in Conns PROVE items'[j].tcpControl \notin items'[j].tcpData
      OBVIOUS
    <3>1. items'[j].tcpControl = items[j].tcpControl /\ items'[j].tcpData \subseteq items[j].tcpData \cup {c}
      BY <1>0 DEF TypeOK, Item
    <3>2. items[j].tcpControl # c
      BY <1>b, <1>h DEF Members
    <3> QED BY <3>1, <3>2 DEF MembersDisjoint
  <2>2. \A j \in Conns \ {i} : Members(j)' \cap Members(i)' = {}
    <3> SUFFICES ASSUME NEW j \in Conns \ {i} PROVE Members(j)' \cap Members(i)' = {}
      OBVIOUS
    <3>1. Members(j)' = Members(j) /\ c \notin Members(j) /\ Members(j) \cap Members(i) = {}
      BY <1>b, <1>2 DEF MembersDisjoint
    <3> QED BY <3>1, <1>2
  <2>3. \A j, k \in Conns : j # k => Members(j)' \cap Members(k)' = {}
    <3> SUFFICES ASSUME NEW j \in Conns, NEW k \in Conns, j # k
                 PROVE  Members(j)' \cap Members(k)' = {}
      OBVIOUS
    <3>1. CASE j # i /\ k # i
      BY <3>1, <1>2 DEF MembersDisjoint
    <3>2. CASE j = i \/ k = i
      BY <3>2, <2>2
    <3> QED BY <3>1, <3>2
  <2> QED BY <2>1, <2>3 DEF MembersDisjoint
<1>5. HeldApart' /\ HeldOnce'
  <2> SUFFICES ASSUME NEW o \in Openers, NEW j \in Conns, held[o] # None
               PROVE  held[o] \notin Members(j)'
    BY <1>0 DEF HeldApart, HeldOnce
  <2>1. held[o] # c /\ held[o] \notin Members(j)
    BY <1>h DEF FreshUnknown, HeldApart
  <2> QED BY <2>1, <1>2
<1>6. VictimRetired'
  <2> SUFFICES ASSUME NEW t \in Threads, pc'[t] \in {"close", "drain"}
               PROVE  /\ victim'[t] \in Conns /\ victim'[t] # current'
                      /\ pc'[t] = "drain" =>
                           Members(victim[t])' \ items'[victim[t]].tcpData \subseteq closed'
                      /\ victim'[t] = victim[t]
    BY DEF VictimRetired
  <2>1. pc[t] = pc'[t] /\ victim'[t] = victim[t]
    BY <1>0 DEF TypeOK, Threads
  <2>2. victim[t] \in Conns /\ victim[t] # i
    BY <2>1, <1>h, <1>i DEF VictimRetired, FreshUnknown
  <2> QED BY <2>1, <2>2, <1>0, <1>2 DEF VictimRetired
<1>7. ReplacedApart' /\ SnapshotTaken'
  <2>1. ReplacedApart'
    <3> SUFFICES ASSUME NEW d \in Conns, pc'[d] = "closeData"
                 PROVE  victim'[d] \in Conns /\ \A j \in Conns : victim'[d] \notin Members(j)'
      BY DEF ReplacedApart
    <3>1. pc[d] = "closeData" /\ victim'[d] = victim[d]
      BY <1>0 DEF TypeOK, Threads
    <3>2. victim[d] # c
      BY <1>h DEF Threads, FreshUnknown
    <3> QED BY <3>1, <3>2, <1>2 DEF ReplacedApart
  <2>2. SnapshotTaken'
    BY <1>0 DEF SnapshotTaken, TypeOK, Threads
  <2> QED BY <2>1, <2>2
<1>8. CurrentNotClosed'
  <2>1. Members(i) \cap closed = {}
    BY <1>i, <1>h DEF CurrentNotClosed, FreshUnknown, EmptyItem, Members
  <2> QED BY <2>1, <1>0, <1>b, <1>2 DEF CurrentNotClosed
<1>9. RetiredTunnelsClosed'
  <2> SUFFICES ASSUME NEW j \in Conns \ {i}, Controlled(j)
               PROVE  Members(j)' \subseteq closed' \/ \E t \in Threads : Closing(t, j)'
    BY <1>0, <1>2 DEF RetiredTunnelsClosed
  <2>1. j # current
    BY <1>i DEF TypeOK
  <2>2. \A t \in Threads : Closing(t, j) => Closing(t, j)'
    BY <1>0, <1>h DEF Closing, TypeOK, Threads
  <2> QED BY <2>1, <2>2, <1>0, <1>2 DEF RetiredTunnelsClosed
<1> QED BY <1>1, <1>3, <1>4, <1>5, <1>6, <1>7, <1>8, <1>9

\* A goroutine that finds nothing left to close is done with its item.
LEMMA DoneClosingStep ==
  ASSUME IInv, NEW t \in Threads, Drained(t), NEW l, l \in {"record", "done", "idle"},
         victim' = [victim EXCEPT ![t] = None], pc' = [pc EXCEPT ![t] = l],
         rows' \in [Conns -> {"none", "enabled", "disabled", "swept"}],
         UNCHANGED <<current, items, role, closed, snap, held, overlap>>
  PROVE  IInv'
<1> USE DEF IInv, Ownership
<1> USE ConnsAssumption, ThreadsAssumption
<1>1. TypeOK'
  BY DEF TypeOK, Conns, Threads
<1>2. \A i \in Conns : Members(i)' = Members(i) /\ (Controlled(i)' <=> Controlled(i))
  BY DEF Members, Controlled, TypeOK
<1>a. \A i \in Conns : Closing(t, i) => Members(i) \subseteq closed
  BY DEF Drained, Closing, VictimRetired
<1>3. FreshUnknown'
  BY <1>2 DEF FreshUnknown, TypeOK, Threads
<1>4. MembersDisjoint' /\ HeldApart' /\ HeldOnce'
  BY <1>2 DEF MembersDisjoint, HeldApart, HeldOnce
<1>6. VictimRetired'
  BY <1>2 DEF VictimRetired, TypeOK, Threads
<1>7. ReplacedApart' /\ SnapshotTaken'
  BY <1>2 DEF ReplacedApart, SnapshotTaken, TypeOK, Threads, Drained
<1>8. CurrentNotClosed'
  BY <1>2 DEF CurrentNotClosed, TypeOK
<1>9. RetiredTunnelsClosed'
  <2> SUFFICES ASSUME NEW j \in Conns, j # current, Controlled(j)
               PROVE  Members(j) \subseteq closed \/ \E u \in Threads : Closing(u, j)'
    BY <1>2 DEF RetiredTunnelsClosed
  <2>1. \A u \in Threads \ {t} : Closing(u, j) => Closing(u, j)'
    BY DEF Closing, TypeOK
  <2> QED BY <2>1, <1>a DEF RetiredTunnelsClosed
<1> QED BY <1>1, <1>3, <1>4, <1>6, <1>7, <1>8, <1>9

-----------------------------------------------------------------------------
(* The invariant and what follows from it.                                 *)

\* A handler of an open connection keeps the invariant.
LEMMA HandlerStep ==
  ASSUME IInv, NEW c \in Conns, Handler(c)
  PROVE  IInv'
<1> USE ConnsAssumption, ThreadsAssumption
<1>t. c \in Threads
  BY DEF Threads
<1>1. CASE HelloRejected(c)
  BY <1>1, HelloRejectedStep
<1>2. CASE c \in QConns /\ role[c] # "data" /\ RegisterQUICControl(c)
  <2>0. PICK d \in {c, None} : d = IF role[c] = "legacy" THEN c ELSE None
    OBVIOUS
  <2>1. PICK x \in Item : x = [EmptyItem EXCEPT !.control = c, !.data = d]
    <3>1. EmptyItem \in Item
      BY DEF EmptyItem, Item
    <3>2. [EmptyItem EXCEPT !.control = c] \in Item
      BY <3>1, <1>2 DEF Item
    <3>3. \A y \in Item : [y EXCEPT !.data = d] \in Item
      BY <1>2 DEF Item
    <3> QED BY <3>2, <3>3
  <2>2. x.tcpData = {} /\ {x.control, x.data, x.tcpControl} \subseteq {c, None}
    BY <2>1 DEF EmptyItem
  <2>3. ReplaceItem(c, x)
    BY <1>2, <2>0, <2>1 DEF RegisterQUICControl
  <2> QED BY <2>2, <2>3, ReplaceItemStep
<1>3. CASE c \in QConns /\ role[c] = "data" /\ RegisterQUICData(c)
  BY <1>3, RegisterQUICDataStep
<1>4. CASE c \in TConns /\ role[c] # "data" /\ RegisterTCPControl(c)
  <2> DEFINE item == [EmptyItem EXCEPT !.tcpControl = c]
  <2>1. PICK x \in Item : x = item
    BY <1>4 DEF Item, EmptyItem
  <2>2. ReplaceItem(c, x) /\ x.tcpData = {} /\ {x.control, x.data, x.tcpControl} \subseteq {c, None}
    BY <1>4, <2>1 DEF RegisterTCPControl, EmptyItem
  <2> QED BY <2>2, ReplaceItemStep
<1>5. CASE c \in TConns /\ role[c] = "data" /\ RegisterTCPData(c)
  BY <1>5, RegisterTCPDataStep
<1>6. CASE CloseReplacedData(c)
  BY <1>6, CloseReplacedDataStep
<1>7. CASE RecordRow(c)
  <2>1. /\ rows' \in [Conns -> {"none", "enabled", "disabled", "swept"}]
        /\ snap' \in [Openers -> Snapshot] /\ overlap' \in BOOLEAN
        /\ pc' = [pc EXCEPT ![c] = "serving"] /\ pc[c] = "record"
        /\ UNCHANGED <<current, items, role, closed, held, victim, snap>>
    BY <1>7 DEF RecordRow, IInv, TypeOK
  <2> QED BY <2>1, <1>t, QuietStep
<1>8. CASE UnregisterControl(c)
  <2>1. CASE current # None /\ IsControlOf(c, current)
    <3>1. /\ Retire(c) /\ pc[c] = "serving" /\ snap' \in [Openers -> Snapshot]
          /\ UNCHANGED <<items, role, closed, snap, held, rows>>
      BY <1>8, <2>1 DEF UnregisterControl, IInv, TypeOK
    <3> QED BY <3>1, <2>1, <1>t, RetireStep
  <2>2. CASE ~(current # None /\ IsControlOf(c, current))
    <3>1. /\ rows' \in [Conns -> {"none", "enabled", "disabled", "swept"}]
          /\ snap' \in [Openers -> Snapshot] /\ overlap' \in BOOLEAN
          /\ pc' = [pc EXCEPT ![c] = "done"] /\ pc[c] = "serving"
          /\ UNCHANGED <<current, items, role, closed, held, victim, snap>>
      BY <1>8, <2>2 DEF UnregisterControl, IInv, TypeOK
    <3> QED BY <3>1, <1>t, QuietStep
  <2> QED BY <2>1, <2>2
<1>9. CASE UnregisterQUICData(c)
  BY <1>9, UnregisterQUICDataStep
<1> QED BY <1>1, <1>2, <1>3, <1>4, <1>5, <1>6, <1>7, <1>8, <1>9 DEF Handler, Hello

\* The two ways a failed open ends.
LEMMA ReturnStep ==
  ASSUME IInv, NEW o \in Openers, pc[o] = "fallback", Return(o),
         UNCHANGED <<current, items, role, victim, closed, held, rows, overlap>>
  PROVE  IInv'
<1>1. /\ rows' \in [Conns -> {"none", "enabled", "disabled", "swept"}]
      /\ snap' \in [Openers -> Snapshot] /\ overlap' \in BOOLEAN
      /\ pc' = [pc EXCEPT ![o] = "idle"] /\ o \in Threads
      /\ \A p \in Openers : snap'[p] = snap[p] \/ pc'[p] = "idle"
  BY DEF Return, IInv, TypeOK, Snapshot, NoSnapshot, Threads
<1> QED BY <1>1, QuietStep

LEMMA CloseDeviceIfCurrentStep ==
  ASSUME IInv, NEW o \in Openers, pc[o] = "fallback", CloseDeviceIfCurrent(o),
         UNCHANGED <<items, role, closed, held, rows>>
  PROVE  IInv'
<1>1. CASE current = snap[o].item
  <2>1. current # None
    BY <1>1, ConnsAssumption DEF IInv, Ownership, SnapshotTaken
  <2>2. /\ o \in Threads /\ Retire(o) /\ snap' \in [Openers -> Snapshot]
        /\ \A p \in Openers : snap'[p] = snap[p] \/ pc'[p] = "close"
    BY <1>1 DEF CloseDeviceIfCurrent, Retire, IInv, TypeOK, Snapshot, NoSnapshot, Threads
  <2> QED BY <2>1, <2>2, RetireStep
<1>2. CASE current # snap[o].item
  BY <1>2, ReturnStep DEF CloseDeviceIfCurrent
<1> QED BY <1>1, <1>2

\* A goroutine that opens a stream keeps the invariant.
LEMMA OpenerStep ==
  ASSUME IInv, NEW o \in Openers, Opener(o)
  PROVE  IInv'
<1>t. o \in Threads
  BY DEF Threads
<1>q. ASSUME NEW l \in {"fallback", "session"}, pc[o] \in {"try", "ack", "fallback"},
             l = "fallback" => pc[o] \in {"try", "ack"},
             pc' = [pc EXCEPT ![o] = l],
             UNCHANGED <<current, items, role, victim, closed, snap, held, rows, overlap>>
      PROVE  IInv'
  <2>1. /\ rows' \in [Conns -> {"none", "enabled", "disabled", "swept"}]
        /\ snap' \in [Openers -> Snapshot] /\ overlap' \in BOOLEAN
    BY <1>q DEF IInv, TypeOK
  <2> QED BY <2>1, <1>q, <1>t, QuietStep
<1>1. CASE OpenStream(o)
  BY <1>1, OpenStreamStep
<1>2. CASE TakeDataConn(o)
  BY <1>2, TakeDataConnStep
<1>3. CASE NoDataConn(o)
  BY <1>3, <1>q DEF NoDataConn
<1>4. CASE OpenAcked(o)
  BY <1>4, <1>q DEF OpenAcked
<1>5. CASE OpenRefused(o)
  BY <1>5, OpenRefusedStep
<1>6. CASE OpenOverQUIC(o)
  <2>1. CASE /\ pc' = [pc EXCEPT ![o] = "session"]
             /\ UNCHANGED <<snap, current, victim, overlap>>
    BY <1>6, <2>1, <1>q DEF OpenOverQUIC
  <2>2. CASE Return(o) /\ UNCHANGED <<current, victim, overlap>>
    BY <1>6, <2>2, ReturnStep DEF OpenOverQUIC
  <2>3. CASE CloseDeviceIfCurrent(o)
    BY <1>6, <2>3, CloseDeviceIfCurrentStep DEF OpenOverQUIC
  <2> QED BY <1>6, <2>1, <2>2, <2>3 DEF OpenOverQUIC
<1>7. CASE OpenFails(o)
  BY <1>7, ReturnStep, CloseDeviceIfCurrentStep DEF OpenFails
<1>8. CASE EndSession(o)
  BY <1>8, EndSessionStep
<1> QED BY <1>1, <1>2, <1>3, <1>4, <1>5, <1>6, <1>7, <1>8 DEF Opener

LEMMA TeardownStep ==
  ASSUME IInv, NEW t \in Threads, Teardown(t)
  PROVE  IInv'
<1>1. CASE CloseItem(t)
  BY <1>1, CloseItemStep
<1>2. CASE DrainItem(t)
  BY <1>2, DrainItemStep
<1>3. CASE MarkRowsClosed(t)
  <2>1. /\ Drained(t) /\ victim' = [victim EXCEPT ![t] = None]
        /\ pc' = [pc EXCEPT ![t] = AfterMark(t)]
        /\ AfterMark(t) \in {"record", "done", "idle"}
        /\ rows' \in [Conns -> {"none", "enabled", "disabled", "swept"}]
        /\ UNCHANGED <<current, items, role, closed, snap, held, overlap>>
    BY <1>3 DEF MarkRowsClosed, AfterMark, IInv, TypeOK
  <2> QED BY <2>1, DoneClosingStep
<1> QED BY <1>1, <1>2, <1>3 DEF Teardown

\* Deleting the device, and the server's Stop.
LEMMA AdministrationStep ==
  ASSUME IInv, CloseDevice \/ CloseAll \/ StopReturn
  PROVE  IInv'
<1>t. Admin \in Threads /\ Stopper \in Threads
  BY DEF Threads
<1>1. CASE CloseDevice
  <2>1. /\ Retire(Admin) /\ current # None /\ pc[Admin] = "idle" /\ snap' \in [Openers -> Snapshot]
        /\ UNCHANGED <<items, role, closed, snap, held, rows>>
    BY <1>1 DEF CloseDevice, IInv, TypeOK
  <2> QED BY <2>1, <1>t, RetireStep
<1>2. CASE CloseAll
  <2>1. CASE current # None
    <3>1. /\ Retire(Stopper) /\ pc[Stopper] = "idle" /\ snap' \in [Openers -> Snapshot]
          /\ UNCHANGED <<items, role, closed, snap, held, rows>>
      BY <1>2, <2>1 DEF CloseAll, IInv, TypeOK
    <3> QED BY <3>1, <2>1, <1>t, RetireStep
  <2>2. CASE current = None
    BY <1>2, <2>2, NothingToCloseStep
  <2> QED BY <2>1, <2>2
<1>3. CASE StopReturn
  BY <1>3, <1>t, DoneClosingStep DEF StopReturn, IInv, TypeOK
<1> QED BY <1>1, <1>2, <1>3

\* The invariant is about the registry: a step that leaves it and every
\* goroutine alone keeps it.
LEMMA RegistryKept ==
  ASSUME IInv, TypeOK', UNCHANGED <<current, items, role, pc, victim, closed, snap, held>>
  PROVE  IInv'
<1>1. \A i : Members(i)' = Members(i) /\ (Controlled(i)' <=> Controlled(i))
  BY DEF Members, Controlled
<1>2. \A t, i : Closing(t, i)' <=> Closing(t, i)
  BY DEF Closing
<1>3. FreshUnknown' /\ MembersDisjoint' /\ VictimRetired'
  BY <1>1 DEF IInv, Ownership, FreshUnknown, MembersDisjoint, VictimRetired
<1>4. HeldApart' /\ ReplacedApart' /\ HeldOnce' /\ SnapshotTaken'
  BY <1>1 DEF IInv, Ownership, HeldApart, ReplacedApart, HeldOnce, SnapshotTaken
<1>5. CurrentNotClosed' /\ RetiredTunnelsClosed'
  BY <1>1, <1>2 DEF IInv, CurrentNotClosed, RetiredTunnelsClosed
<1> QED BY <1>3, <1>4, <1>5 DEF IInv, Ownership

LEMMA NextIInv == IInv /\ [Next]_vars => IInv'
<1> SUFFICES ASSUME IInv, [Next]_vars PROVE IInv'
  OBVIOUS
<1>1. CASE UNCHANGED vars
  <2>1. TypeOK'
    BY <1>1 DEF vars, IInv, TypeOK
  <2> QED BY <1>1, <2>1, RegistryKept DEF vars
<1>2. CASE CloseStaleRows
  <2>1. TypeOK'
    BY <1>2 DEF CloseStaleRows, IInv, TypeOK
  <2> QED BY <1>2, <2>1, RegistryKept DEF CloseStaleRows
<1> QED BY <1>1, <1>2, HandlerStep, OpenerStep, TeardownStep, AdministrationStep DEF Next

\* Every behaviour of the registry keeps the invariant: types, ownership of
\* connections and the two safety properties it carries.
THEOREM Invariance == Spec => []IInv
BY InitIInv, NextIInv, PTL DEF Spec

\* The registry, its items and every goroutine stay in their domains.
THEOREM TypeCorrect == Spec => []TypeOK
<1>1. IInv => TypeOK
  BY DEF IInv
<1> QED BY <1>1, Invariance, PTL

\* Whatever interleaves after the unlocks, the server never closes a
\* connection of the item registered for the device.
THEOREM RegisteredTunnelUntouched == Spec => []CurrentNotClosed
<1>1. IInv => CurrentNotClosed
  BY DEF IInv
<1> QED BY <1>1, Invariance, PTL

\* A tunnel that has left the registry is completely closed, or some goroutine
\* still has to close it: closeDeviceItem misses no connection.
THEOREM NoStrandedConnection == Spec => []RetiredTunnelsClosed
<1>1. IInv => RetiredTunnelsClosed
  BY DEF IInv
<1> QED BY <1>1, Invariance, PTL

-----------------------------------------------------------------------------
(* What becomes of a TCP data connection.                                  *)

\* Where the drain of item i or an opener still finds what waits in it; the
\* exception is the item its last QUIC data connection left.
Reachable(i) ==
  \/ i = current
  \/ \E t \in Threads : Closing(t, i)
  \/ ~Controlled(i) /\ items[i].data = None

Kept(c) ==
  \/ c \in closed
  \/ \E o \in Openers : held[o] = c
  \/ \E i \in Conns : c \in items[i].tcpData /\ Reachable(i)

\* The handler of a TCP data connection is gone after its hello, and an opener
\* holds one only from the receive to the end of its attempt or session.
DataInv ==
  /\ \A c \in TConns : role[c] = "data" => pc[c] \in {"hello", "done"}
  /\ \A o \in Openers : held[o] # None => pc[o] \in {"ack", "session"}
  /\ DataConnAccounted

LEMMA AccountedIsKept ==
  DataConnAccounted <=> \A c \in TConns : role[c] = "data" /\ pc[c] = "done" => Kept(c)
BY DEF DataConnAccounted, Kept, Reachable

LEMMA InitData == Init => DataInv
<1> SUFFICES ASSUME Init PROVE DataInv
  OBVIOUS
<1>1. \A c \in TConns : role[c] = "data" => pc[c] = "hello"
  BY DEF Init, Threads, Conns
<1>2. \A o \in Openers : held[o] = None
  BY DEF Init
<1> QED BY <1>1, <1>2 DEF DataInv, DataConnAccounted

\* A step that closes or hands over no less than it takes out of the channels,
\* and after which whatever still holds connections is still reachable.
LEMMA DataKept ==
  ASSUME DataInv, closed \subseteq closed', role' = role,
         \A c \in TConns : role[c] = "data" => pc'[c] \in {"hello", "done"},
         \A c \in TConns : role[c] = "data" /\ pc'[c] = "done" => pc[c] = "done" \/ Kept(c)',
         \A o \in Openers : held'[o] # None => pc'[o] \in {"ack", "session"},
         \A o \in Openers : held[o] # None => held[o] \in closed' \/ held'[o] = held[o],
         \A i \in Conns : \A c \in items[i].tcpData :
           Reachable(i) =>
             \/ c \in closed'
             \/ \E o \in Openers : held'[o] = c
             \/ c \in items'[i].tcpData /\ Reachable(i)'
  PROVE  DataInv'
<1>n. \A c \in TConns : c # None
  BY ConnsAssumption DEF Conns
<1>1. ASSUME NEW c \in TConns, Kept(c) PROVE Kept(c)'
  <2>1. CASE c \in closed
    BY <2>1 DEF Kept
  <2>2. CASE \E o \in Openers : held[o] = c
    BY <1>n, <2>2 DEF Kept
  <2>3. CASE \E i \in Conns : c \in items[i].tcpData /\ Reachable(i)
    BY <2>3 DEF Kept
  <2> QED BY <1>1, <2>1, <2>2, <2>3 DEF Kept
<1>2. \A c \in TConns : role[c] = "data" /\ pc[c] = "done" => Kept(c)
  BY AccountedIsKept DEF DataInv
<1>3. \A c \in TConns : role'[c] = "data" /\ pc'[c] = "done" => Kept(c)'
  BY <1>1, <1>2
<1>4. DataConnAccounted'
  BY <1>3 DEF DataConnAccounted, Kept, Reachable
<1> QED BY <1>4 DEF DataInv

\* Goroutine t goes on and changes neither the map nor an item.
LEMMA DataQuiet ==
  ASSUME DataInv, IInv, NEW t \in Threads, NEW l, pc' = [pc EXCEPT ![t] = l],
         UNCHANGED <<current, items, role>>, closed \subseteq closed',
         t \in TConns /\ role[t] = "data" => l = "done" /\ t \in closed',
         \A u \in Threads \ {t} : victim'[u] = victim[u],
         \A i \in Conns : Closing(t, i) => Closing(t, i)',
         \A o \in Openers : held'[o] # None => pc'[o] \in {"ack", "session"},
         \A o \in Openers : held[o] # None => held[o] \in closed' \/ held'[o] = held[o]
  PROVE  DataInv'
<1>1. pc'[t] = l /\ \A u \in Threads \ {t} : pc'[u] = pc[u]
  BY DEF IInv, TypeOK
<1>2. \A i \in Conns : Reachable(i) => Reachable(i)'
  BY <1>1 DEF Reachable, Closing, Controlled
<1>3. \A c \in TConns : c \in Threads
  BY DEF Threads, Conns
<1>4. \A c \in TConns : role[c] = "data" => pc'[c] \in {"hello", "done"}
  BY <1>1, <1>3 DEF DataInv
<1>5. \A c \in TConns : role[c] = "data" /\ pc'[c] = "done" => pc[c] = "done" \/ Kept(c)'
  BY <1>1, <1>3 DEF Kept
<1>6. \A i \in Conns : \A c \in items[i].tcpData : Reachable(i) => c \in items'[i].tcpData /\ Reachable(i)'
  BY <1>2
<1> QED BY <1>4, <1>5, <1>6, DataKept

\* Goroutine t takes the registered item out of the map, or puts another in its
\* place: what waits in it is now for t to close.
LEMMA DataEnter ==
  ASSUME DataInv, IInv, NEW t \in Threads, NEW l \in {"close", "mark"},
         pc' = [pc EXCEPT ![t] = l], l = "mark" => current = None,
         victim' = [victim EXCEPT ![t] = current],
         UNCHANGED <<role, closed, held>>,
         pc[t] \notin {"close", "drain"}, t \in Openers => held[t] = None,
         t \in TConns => role[t] # "data",
         \A i \in Conns : items'[i] = items[i] \/ items[i].tcpData = {}
  PROVE  DataInv'
<1>1. /\ pc'[t] = l /\ \A u \in Threads \ {t} : pc'[u] = pc[u]
      /\ victim'[t] = current /\ \A u \in Threads \ {t} : victim'[u] = victim[u]
  BY DEF IInv, TypeOK
<1>2. ASSUME NEW i \in Conns, items'[i] = items[i], Reachable(i) PROVE Reachable(i)'
  <2>1. CASE i = current
    <3>1. current # None
      BY <2>1, ConnsAssumption
    <3>2. Closing(t, i)'
      BY <1>1, <2>1, <3>1 DEF Closing
    <3> QED BY <3>2 DEF Reachable
  <2>2. CASE \E u \in Threads : Closing(u, i)
    <3>1. PICK u \in Threads : Closing(u, i)
      BY <2>2
    <3>2. u # t
      BY <3>1 DEF Closing
    <3>3. Closing(u, i)'
      BY <1>1, <3>1, <3>2 DEF Closing
    <3> QED BY <3>3 DEF Reachable
  <2>3. CASE ~Controlled(i) /\ items[i].data = None
    BY <1>2, <2>3 DEF Reachable, Controlled
  <2> QED BY <1>2, <2>1, <2>2, <2>3 DEF Reachable
<1>3. \A i \in Conns : \A c \in items[i].tcpData : Reachable(i) => c \in items'[i].tcpData /\ Reachable(i)'
  BY <1>2
<1>4. \A c \in TConns : c \in Threads
  BY DEF Threads, Conns
<1>5. \A c \in TConns : role[c] = "data" => pc'[c] = pc[c] /\ pc[c] \in {"hello", "done"}
  BY <1>1, <1>4 DEF DataInv
<1>6. \A o \in Openers : held[o] # None => pc'[o] \in {"ack", "session"}
  <2>1. \A o \in Openers : o \in Threads
    BY DEF Threads
  <2> QED BY <1>1, <2>1 DEF DataInv
<1> QED BY <1>3, <1>5, <1>6, DataKept

LEMMA DataReplaced ==
  ASSUME DataInv, IInv, NEW c \in Conns, NEW item, ReplaceItem(c, item), role[c] # "data"
  PROVE  DataInv'
<1>1. c \in Threads /\ c \notin Openers
  BY ThreadsAssumption DEF Threads
<1>2. items[c].tcpData = {}
  BY DEF ReplaceItem, IInv, Ownership, FreshUnknown, EmptyItem
<1>3. \A i \in Conns : items'[i] = items[i] \/ items[i].tcpData = {}
  BY <1>2 DEF ReplaceItem, IInv, TypeOK
<1>4. PICK l \in {"close", "mark"} : pc' = [pc EXCEPT ![c] = l] /\ (l = "mark" => current = None)
  BY DEF ReplaceItem
<1> QED BY <1>1, <1>3, <1>4, DataEnter DEF ReplaceItem

LEMMA DataRetired ==
  ASSUME DataInv, IInv, NEW t \in Threads, Retire(t), UNCHANGED <<items, role, closed, held>>,
         pc[t] \in {"serving", "idle", "fallback"}, t \in TConns => role[t] # "data"
  PROVE  DataInv'
<1>1. t \in Openers => held[t] = None
  BY DEF DataInv
<1> QED BY <1>1, DataEnter DEF Retire

\* The data connections: joining leaves every channel where it was, and adds to
\* the registered one or closes.
LEMMA QUICDataJoins ==
  ASSUME DataInv, IInv, NEW c \in QConns, RegisterQUICData(c)
  PROVE  DataInv'
<1> USE ConnsAssumption, ThreadsAssumption
<1>h. pc[c] = "hello" /\ c \in Conns /\ c \in Threads /\ c \notin TConns
  BY DEF RegisterQUICData, Conns, Threads
<1>i. PICK i \in Conns : i = IF current = None THEN c ELSE current
  BY <1>h DEF IInv, TypeOK
<1>0. /\ items' = [items EXCEPT ![i].data = c] /\ current' = i
      /\ UNCHANGED <<role, closed, held>>
      /\ \A u \in Threads \ {c} : pc'[u] = pc[u] /\ victim'[u] = victim[u]
  BY <1>h, <1>i DEF RegisterQUICData, IInv, TypeOK
<1>1. /\ \A j \in Conns \ {i} : items'[j] = items[j]
      /\ items'[i].tcpData = items[i].tcpData
  BY <1>0 DEF IInv, TypeOK, Item
<1>2. \A u \in Threads, j \in Conns : Closing(u, j) => Closing(u, j)'
  BY <1>h, <1>0 DEF Closing
<1>3. ASSUME NEW j \in Conns, Reachable(j) PROVE Reachable(j)'
  <2>1. CASE j = i
    BY <1>0, <2>1 DEF Reachable
  <2>2. CASE j # i
    <3>1. j # current
      BY <1>i, <2>2
    <3> QED BY <1>1, <1>2, <1>3, <2>2, <3>1 DEF Reachable, Controlled
  <2> QED BY <2>1, <2>2
<1>4. \A j \in Conns : \A d \in items[j].tcpData : Reachable(j) => d \in items'[j].tcpData /\ Reachable(j)'
  BY <1>1, <1>3
<1>5. \A d \in TConns : d \in Threads /\ d # c
  BY <1>h DEF Threads, Conns
<1>6. \A o \in Openers : o \in Threads /\ o # c
  BY <1>h DEF Threads
<1>7. \A d \in TConns : role[d] = "data" => pc'[d] = pc[d] /\ pc[d] \in {"hello", "done"}
  BY <1>0, <1>5 DEF DataInv
<1>8. \A o \in Openers : held[o] # None => pc'[o] \in {"ack", "session"}
  BY <1>0, <1>6 DEF DataInv
<1> QED BY <1>0, <1>4, <1>7, <1>8, DataKept

LEMMA TCPDataJoins ==
  ASSUME DataInv, IInv, NEW c \in TConns, RegisterTCPData(c)
  PROVE  DataInv'
<1> USE ConnsAssumption, ThreadsAssumption
<1>h. pc[c] = "hello" /\ c \in Conns /\ c \in Threads
  BY DEF RegisterTCPData, Conns, Threads
<1>i. PICK i \in Conns : i = IF current = None THEN c ELSE current
  BY <1>h DEF IInv, TypeOK
<1>0. /\ current' = i /\ UNCHANGED <<role, held, victim>>
      /\ pc'[c] = "done" /\ \A u \in Threads \ {c} : pc'[u] = pc[u]
  BY <1>h, <1>i DEF RegisterTCPData, IInv, TypeOK
<1>1. \/ items' = items /\ closed' = closed \cup {c}
      \/ items' = [items EXCEPT ![i].tcpData = @ \cup {c}] /\ closed' = closed
  BY <1>h, <1>i DEF RegisterTCPData
<1>2. /\ closed \subseteq closed'
      /\ \A j \in Conns : /\ items[j].tcpData \subseteq items'[j].tcpData
                          /\ items'[j].control = items[j].control
                          /\ items'[j].tcpControl = items[j].tcpControl
                          /\ items'[j].data = items[j].data
      /\ c \in closed' \/ c \in items'[i].tcpData
  <2>1. CASE items' = items /\ closed' = closed \cup {c}
    BY <2>1
  <2>2. CASE items' = [items EXCEPT ![i].tcpData = @ \cup {c}] /\ closed' = closed
    BY <2>2 DEF IInv, TypeOK, Item
  <2> QED BY <1>1, <2>1, <2>2
<1>3. \A u \in Threads, j \in Conns : Closing(u, j) => Closing(u, j)'
  BY <1>h, <1>0 DEF Closing
<1>4. ASSUME NEW j \in Conns, Reachable(j) PROVE Reachable(j)'
  <2>1. CASE j = current
    <3>1. i = j
      BY <1>i, <2>1
    <3> QED BY <1>0, <3>1 DEF Reachable
  <2>2. CASE j # current
    BY <1>2, <1>3, <1>4, <2>2 DEF Reachable, Controlled
  <2> QED BY <2>1, <2>2
<1>5. Kept(c)'
  <2>1. Reachable(i)'
    BY <1>0 DEF Reachable
  <2> QED BY <1>2, <2>1 DEF Kept
<1>6. \A j \in Conns : \A d \in items[j].tcpData : Reachable(j) => d \in items'[j].tcpData /\ Reachable(j)'
  BY <1>2, <1>4
<1>7. \A d \in TConns : d \in Threads
  BY DEF Threads, Conns
<1>8. \A o \in Openers : o \in Threads /\ o # c
  BY <1>h DEF Threads
<1>9. \A d \in TConns : role[d] = "data" => pc'[d] \in {"hello", "done"}
  BY <1>0, <1>7 DEF DataInv
<1>10. \A d \in TConns : role[d] = "data" /\ pc'[d] = "done" => pc[d] = "done" \/ Kept(d)'
  BY <1>0, <1>5, <1>7
<1>11. \A o \in Openers : held[o] # None => pc'[o] \in {"ack", "session"}
  BY <1>0, <1>8 DEF DataInv
<1> QED BY <1>0, <1>2, <1>6, <1>9, <1>10, <1>11, DataKept

\* A QUIC data connection that leaves an item without a tunnel drops it.
LEMMA QUICDataLeaves ==
  ASSUME DataInv, IInv, NEW c \in Conns, UnregisterQUICData(c),
         ~(c \in TConns /\ role[c] = "data")
  PROVE  DataInv'
<1> USE ConnsAssumption, ThreadsAssumption
<1>h. pc[c] = "serving" /\ c \in Threads /\ c \notin TConns
  BY DEF UnregisterQUICData, Threads
<1>0. /\ UNCHANGED <<role, victim, closed, held>>
      /\ pc'[c] = "done" /\ \A u \in Threads \ {c} : pc'[u] = pc[u]
  BY <1>h DEF UnregisterQUICData, IInv, TypeOK
<1>1. /\ current' = current \/ (~Controlled(current) /\ items'[current].data = None)
      /\ \A j \in Conns : /\ items'[j].tcpData = items[j].tcpData
                          /\ items'[j].control = items[j].control
                          /\ items'[j].tcpControl = items[j].tcpControl
                          /\ items'[j].data = items[j].data \/ items'[j].data = None
  <2>1. CASE current # None /\ items[current].data = c
    <3>1. current \in Conns /\ items' = [items EXCEPT ![current].data = None]
          /\ current' = IF Controlled(current) THEN current ELSE None
      BY <2>1 DEF UnregisterQUICData, IInv, TypeOK
    <3>2. items \in [Conns -> Item]
      BY DEF IInv, TypeOK
    <3>3. items'[current].data = None
      BY <3>1, <3>2 DEF Item
    <3> QED BY <3>1, <3>2, <3>3 DEF Item
  <2>2. CASE ~(current # None /\ items[current].data = c)
    BY <2>2 DEF UnregisterQUICData
  <2> QED BY <2>1, <2>2
<1>2. \A u \in Threads, j \in Conns : Closing(u, j) => Closing(u, j)'
  BY <1>h, <1>0 DEF Closing
<1>3. ASSUME NEW j \in Conns, Reachable(j) PROVE Reachable(j)'
  <2>1. Controlled(j)' <=> Controlled(j)
    BY <1>1 DEF Controlled
  <2>2. CASE j = current
    BY <1>1, <2>1, <2>2 DEF Reachable
  <2>3. CASE j # current
    BY <1>1, <1>2, <1>3, <2>1, <2>3 DEF Reachable
  <2> QED BY <2>2, <2>3
<1>4. \A j \in Conns : \A d \in items[j].tcpData : Reachable(j) => d \in items'[j].tcpData /\ Reachable(j)'
  BY <1>1, <1>3
<1>5. \A d \in TConns : d \in Threads /\ d # c
  BY <1>h DEF Threads, Conns
<1>6. \A o \in Openers : o \in Threads /\ o # c
  BY DEF Threads
<1>7. \A d \in TConns : role[d] = "data" => pc'[d] = pc[d] /\ pc[d] \in {"hello", "done"}
  BY <1>0, <1>5 DEF DataInv
<1>8. \A o \in Openers : held[o] # None => pc'[o] \in {"ack", "session"}
  BY <1>0, <1>6 DEF DataInv
<1> QED BY <1>0, <1>4, <1>7, <1>8, DataKept

\* The handlers.
LEMMA HandlerData ==
  ASSUME DataInv, IInv, NEW c \in Conns, Handler(c)
  PROVE  DataInv'
<1> USE ConnsAssumption, ThreadsAssumption
<1>t. c \in Threads /\ c \notin Openers /\ \A o \in Openers : o # c /\ o \in Threads
  BY DEF Threads
<1>d. c \in TConns /\ role[c] = "data" => pc[c] \in {"hello", "done"}
  BY DEF DataInv
<1>h. \A o \in Openers : held[o] # None => pc[o] \in {"ack", "session"}
  BY DEF DataInv
<1>q. ASSUME NEW l, pc' = [pc EXCEPT ![c] = l], UNCHANGED <<current, items, role, held>>,
             closed \subseteq closed', pc[c] \in {"hello", "closeData", "record", "serving"},
             c \in TConns /\ role[c] = "data" => l = "done" /\ c \in closed',
             \A u \in Threads \ {c} : victim'[u] = victim[u]
      PROVE  DataInv'
  <2>1. \A i \in Conns : ~Closing(c, i)
    BY <1>q DEF Closing
  <2>2. \A o \in Openers : pc'[o] = pc[o]
    BY <1>q, <1>t DEF IInv, TypeOK
  <2> QED BY <1>q, <1>t, <1>h, <2>1, <2>2, DataQuiet
<1>1. CASE HelloRejected(c)
  BY <1>1, <1>q DEF HelloRejected
<1>2. CASE c \in QConns /\ role[c] # "data" /\ RegisterQUICControl(c)
  BY <1>2, DataReplaced DEF RegisterQUICControl
<1>3. CASE c \in QConns /\ role[c] = "data" /\ RegisterQUICData(c)
  BY <1>3, QUICDataJoins
<1>4. CASE c \in TConns /\ role[c] # "data" /\ RegisterTCPControl(c)
  BY <1>4, DataReplaced DEF RegisterTCPControl
<1>5. CASE c \in TConns /\ role[c] = "data" /\ RegisterTCPData(c)
  BY <1>5, TCPDataJoins
<1>6. CASE CloseReplacedData(c)
  <2>1. \A u \in Threads \ {c} : victim'[u] = victim[u]
    BY <1>6 DEF CloseReplacedData, IInv, TypeOK
  <2> QED BY <1>6, <1>d, <1>q, <2>1 DEF CloseReplacedData
<1>7. CASE RecordRow(c)
  BY <1>7, <1>d, <1>q DEF RecordRow
<1>8. CASE UnregisterControl(c)
  <2>1. CASE current # None /\ IsControlOf(c, current)
    BY <1>8, <1>t, <2>1, DataRetired DEF UnregisterControl
  <2>2. CASE ~(current # None /\ IsControlOf(c, current))
    BY <1>8, <1>d, <1>q, <2>2 DEF UnregisterControl
  <2> QED BY <2>1, <2>2
<1>9. CASE UnregisterQUICData(c)
  BY <1>9, <1>d, QUICDataLeaves DEF UnregisterQUICData
<1> QED BY <1>1, <1>2, <1>3, <1>4, <1>5, <1>6, <1>7, <1>8, <1>9 DEF Handler, Hello

LEMMA OpenerData ==
  ASSUME DataInv, IInv, NEW o \in Openers, Opener(o)
  PROVE  DataInv'
<1> USE ConnsAssumption, ThreadsAssumption
<1>t. o \in Threads /\ o \notin Conns /\ o \notin TConns /\ \A p \in Openers : p \in Threads
  BY DEF Threads, Conns
<1>h. \A p \in Openers : held[p] # None => pc[p] \in {"ack", "session"}
  BY DEF DataInv
<1>q. ASSUME NEW l, pc' = [pc EXCEPT ![o] = l], UNCHANGED <<current, items, role, victim>>,
             closed \subseteq closed', pc[o] \in {"idle", "try", "ack", "fallback", "session"},
             \A p \in Openers \ {o} : held'[p] = held[p],
             \/ held'[o] = held[o] /\ (l \in {"ack", "session"} \/ held[o] = None)
             \/ held'[o] = None /\ (held[o] = None \/ held[o] \in closed')
      PROVE  DataInv'
  <2>1. \A i \in Conns : ~Closing(o, i)
    BY <1>q DEF Closing
  <2>2. pc'[o] = l /\ \A p \in Openers \ {o} : pc'[p] = pc[p]
    BY <1>q, <1>t DEF IInv, TypeOK
  <2>3. \A p \in Openers : held'[p] # None => pc'[p] \in {"ack", "session"}
    BY <1>h, <1>q, <2>2
  <2>4. \A p \in Openers : held[p] # None => held[p] \in closed' \/ held'[p] = held[p]
    BY <1>q
  <2> QED BY <1>q, <1>t, <2>1, <2>3, <2>4, DataQuiet
<1>r. CASE CloseDeviceIfCurrent(o) /\ pc[o] = "fallback" /\ UNCHANGED <<items, role, closed, held>>
  <2>1. CASE current = snap[o].item
    BY <1>r, <1>t, <2>1, DataRetired DEF CloseDeviceIfCurrent
  <2>2. CASE current # snap[o].item
    BY <1>r, <1>h, <2>2, <1>q DEF CloseDeviceIfCurrent, Return
  <2> QED BY <2>1, <2>2
<1>1. CASE OpenStream(o)
  BY <1>1, <1>h, <1>q DEF OpenStream
<1>2. CASE TakeDataConn(o)
  <2>0. pc[o] = "try" /\ held[o] = None /\ UNCHANGED <<current, role, victim, closed>>
    BY <1>2, <1>h DEF TakeDataConn
  <2>1. PICK i \in Conns, c \in TConns :
          /\ c \in items[i].tcpData
          /\ items' = [items EXCEPT ![i].tcpData = @ \ {c}]
          /\ held' = [held EXCEPT ![o] = c]
          /\ pc' = [pc EXCEPT ![o] = "ack"]
    <3>1. snap[o].item \in Conns
      BY <2>0 DEF IInv, Ownership, SnapshotTaken
    <3>2. items[snap[o].item].tcpData \subseteq TConns
      BY <3>1 DEF IInv, TypeOK, Item
    <3> QED BY <1>2, <3>1, <3>2 DEF TakeDataConn
  <2>2. /\ held'[o] = c /\ \A p \in Openers \ {o} : held'[p] = held[p]
        /\ pc'[o] = "ack" /\ \A u \in Threads \ {o} : pc'[u] = pc[u]
    BY <1>t, <2>1 DEF IInv, TypeOK
  <2>3. \A j \in Conns : /\ items[j].tcpData \subseteq items'[j].tcpData \cup {c}
                         /\ items'[j].control = items[j].control
                         /\ items'[j].tcpControl = items[j].tcpControl
                         /\ items'[j].data = items[j].data
    BY <2>1 DEF IInv, TypeOK, Item
  <2>4. \A u \in Threads, j \in Conns : Closing(u, j) => Closing(u, j)'
    BY <2>0, <2>2 DEF Closing
  <2>5. \A j \in Conns : Reachable(j) => Reachable(j)'
    BY <2>0, <2>3, <2>4 DEF Reachable, Controlled
  <2>6. \A j \in Conns : \A d \in items[j].tcpData : Reachable(j) =>
          (\E p \in Openers : held'[p] = d) \/ (d \in items'[j].tcpData /\ Reachable(j)')
    BY <2>2, <2>3, <2>5
  <2>7. \A d \in TConns : role[d] = "data" => pc'[d] = pc[d] /\ pc[d] \in {"hello", "done"}
    BY <1>t, <2>2 DEF DataInv, Threads, Conns
  <2>8. \A p \in Openers : held'[p] # None => pc'[p] \in {"ack", "session"}
    BY <1>h, <1>t, <2>2
  <2>9. \A p \in Openers : held[p] # None => held[p] \in closed' \/ held'[p] = held[p]
    BY <2>0, <2>2
  <2> QED BY <2>0, <2>6, <2>7, <2>8, <2>9, DataKept
<1>3. CASE NoDataConn(o) \/ OpenAcked(o)
  BY <1>3, <1>h, <1>q DEF NoDataConn, OpenAcked
<1>5. CASE OpenRefused(o)
  <2>1. held'[o] = None /\ \A p \in Openers \ {o} : held'[p] = held[p]
    BY <1>5 DEF OpenRefused, IInv, TypeOK
  <2> QED BY <1>5, <2>1, <1>q DEF OpenRefused
<1>6. CASE OpenOverQUIC(o)
  BY <1>6, <1>h, <1>q, <1>r DEF OpenOverQUIC, Return
<1>7. CASE OpenFails(o)
  BY <1>7, <1>h, <1>q, <1>r DEF OpenFails, Return
<1>8. CASE EndSession(o)
  <2>1. held'[o] = None /\ \A p \in Openers \ {o} : held'[p] = held[p]
    BY <1>8 DEF EndSession, IInv, TypeOK
  <2>2. held[o] = None \/ held[o] \in closed'
    BY <1>8 DEF EndSession
  <2> QED BY <1>8, <2>1, <2>2, <1>q DEF EndSession, Return
<1> QED BY <1>1, <1>2, <1>3, <1>5, <1>6, <1>7, <1>8 DEF Opener

\* Closing an item closes what waits in it, and is over when nothing does.
LEMMA ClosingEnds ==
  ASSUME DataInv, IInv, NEW t \in Threads, Drained(t), NEW l \in {"record", "done", "idle"},
         pc' = [pc EXCEPT ![t] = l], victim' = [victim EXCEPT ![t] = None],
         UNCHANGED <<current, items, role, closed, held>>
  PROVE  DataInv'
<1>1. /\ pc'[t] = l /\ \A u \in Threads \ {t} : pc'[u] = pc[u] /\ victim'[u] = victim[u]
  BY DEF IInv, TypeOK
<1>2. \A j \in Conns : items[j].tcpData # {} => ~Closing(t, j)
  BY DEF Drained, Closing
<1>3. \A u \in Threads, j \in Conns : items[j].tcpData # {} /\ Closing(u, j) => Closing(u, j)'
  BY <1>1, <1>2 DEF Closing
<1>4. \A j \in Conns : items[j].tcpData # {} /\ Reachable(j) => Reachable(j)'
  BY <1>3 DEF Reachable, Controlled
<1>5. \A j \in Conns : \A d \in items[j].tcpData : Reachable(j) => d \in items'[j].tcpData /\ Reachable(j)'
  BY <1>4
<1>6. pc[t] \in {"mark", "drain"}
  BY DEF Drained
<1>7. \A d \in TConns : role[d] = "data" => pc'[d] = pc[d] /\ pc[d] \in {"hello", "done"}
  <2>1. \A d \in TConns : d \in Threads
    BY DEF Threads, Conns
  <2> QED BY <1>1, <1>6, <2>1 DEF DataInv
<1>8. \A o \in Openers : held[o] # None => pc'[o] \in {"ack", "session"}
  <2>1. \A o \in Openers : o \in Threads
    BY DEF Threads
  <2> QED BY <1>1, <1>6, <2>1 DEF DataInv
<1> QED BY <1>5, <1>7, <1>8, DataKept

LEMMA TeardownData ==
  ASSUME DataInv, IInv, NEW t \in Threads, Teardown(t)
  PROVE  DataInv'
<1> USE ConnsAssumption, ThreadsAssumption
<1>h. \A o \in Openers : held[o] # None => pc[o] \in {"ack", "session"}
  BY DEF DataInv
<1>1. CASE CloseItem(t)
  <2>1. pc'[t] = "drain" /\ \A u \in Threads \ {t} : pc'[u] = pc[u]
    BY <1>1 DEF CloseItem, IInv, TypeOK
  <2>2. \A i \in Conns : Closing(t, i) => Closing(t, i)'
    BY <1>1, <2>1 DEF CloseItem, Closing
  <2>3. ~(t \in TConns /\ role[t] = "data")
    BY <1>1 DEF CloseItem, DataInv
  <2>4. \A o \in Openers : held'[o] # None => pc'[o] \in {"ack", "session"}
    BY <1>1, <1>h, <2>1 DEF CloseItem, Threads
  <2> QED BY <1>1, <2>2, <2>3, <2>4, DataQuiet DEF CloseItem
<1>2. CASE DrainItem(t)
  <2>1. UNCHANGED <<current, role, pc, victim, held>>
    BY <1>2 DEF DrainItem
  <2>2. PICK c \in items[victim[t]].tcpData :
          /\ items' = [items EXCEPT ![victim[t]].tcpData = @ \ {c}]
          /\ closed' = closed \cup {c}
    BY <1>2 DEF DrainItem
  <2>3. \A j \in Conns : /\ items[j].tcpData \subseteq items'[j].tcpData \cup {c}
                         /\ items'[j].control = items[j].control
                         /\ items'[j].tcpControl = items[j].tcpControl
                         /\ items'[j].data = items[j].data
    BY <2>2 DEF IInv, TypeOK, Item
  <2>4. \A j \in Conns : Reachable(j) => Reachable(j)'
    BY <2>1, <2>3 DEF Reachable, Controlled, Closing
  <2>5. \A j \in Conns : \A d \in items[j].tcpData : Reachable(j) =>
          d \in closed' \/ (d \in items'[j].tcpData /\ Reachable(j)')
    BY <2>2, <2>3, <2>4
  <2> QED BY <1>h, <2>1, <2>2, <2>5, DataKept DEF DataInv
<1>3. CASE MarkRowsClosed(t)
  <2>1. AfterMark(t) \in {"record", "done", "idle"}
    BY DEF AfterMark
  <2> QED BY <1>3, <2>1, ClosingEnds DEF MarkRowsClosed
<1> QED BY <1>1, <1>2, <1>3 DEF Teardown

LEMMA NextData == IInv /\ DataInv /\ [Next]_vars => DataInv'
<1> SUFFICES ASSUME IInv, DataInv, [Next]_vars PROVE DataInv'
  OBVIOUS
<1> USE ConnsAssumption, ThreadsAssumption
<1>t. Admin \in Threads /\ Stopper \in Threads /\ {Admin, Stopper} \cap Conns = {}
      /\ {Admin, Stopper} \cap TConns = {} /\ {Admin, Stopper} \cap Openers = {}
  BY DEF Threads, Conns
<1>1. CASE UNCHANGED <<current, items, role, pc, victim, closed, snap, held>>
  BY <1>1 DEF DataInv, DataConnAccounted, Closing, Controlled
<1>2. CASE CloseDevice
  BY <1>2, <1>t, DataRetired DEF CloseDevice
<1>3. CASE CloseAll
  <2>1. CASE current # None
    BY <1>3, <1>t, <2>1, DataRetired DEF CloseAll
  <2>2. CASE current = None
    <3>1. /\ pc' = [pc EXCEPT ![Stopper] = "mark"] /\ pc[Stopper] = "idle"
          /\ UNCHANGED <<current, items, role, victim, closed, held>>
      BY <1>3, <2>2 DEF CloseAll
    <3>2. \A o \in Openers : pc'[o] = pc[o]
      BY <1>t, <3>1 DEF IInv, TypeOK, Threads
    <3>3. \A o \in Openers : held'[o] # None => pc'[o] \in {"ack", "session"}
      BY <3>1, <3>2 DEF DataInv
    <3>4. \A i \in Conns : Closing(Stopper, i) => Closing(Stopper, i)'
      BY <3>1 DEF Closing
    <3> QED BY <1>t, <3>1, <3>3, <3>4, DataQuiet
  <2> QED BY <2>1, <2>2
<1>4. CASE StopReturn
  BY <1>4, <1>t, ClosingEnds DEF StopReturn
<1>5. CASE UNCHANGED vars \/ CloseStaleRows
  BY <1>1, <1>5 DEF vars, CloseStaleRows
<1> QED BY <1>2, <1>3, <1>4, <1>5, HandlerData, OpenerData, TeardownData DEF Next

\* No TCP data connection falls between the channel, the openers and the drains:
\* after its hello it is closed, held, or waits where somebody will find it,
\* whoever replaces, closes or empties its item meanwhile.
THEOREM DataConnsAccountedFor == Spec => []DataConnAccounted
<1>1. Spec => []DataInv
  BY Invariance, InitData, NextData, PTL DEF Spec
<1>2. DataInv => DataConnAccounted
  BY DEF DataInv
<1> QED BY <1>1, <1>2, PTL

-----------------------------------------------------------------------------
(* Why a tunnel ends.                                                      *)

\* The reasons for which the registered tunnel may leave the map in a step.
EndedBy(t) ==
  /\ victim'[t] = current
  /\ \/ t \in {Admin, Stopper}
     \/ t \in Conns /\ IsControlOf(t, current)
     \/ t \in Openers /\ snap[t].item = current

EndsForAReason ==
  (current # None /\ Controlled(current) /\ current' # current) =>
    current' \in Conns \/ \E t \in Threads : EndedBy(t)

LEMMA RetireEnds ==
  ASSUME IInv, NEW t \in Threads, Retire(t),
         \/ t \in {Admin, Stopper}
         \/ t \in Conns /\ IsControlOf(t, current)
         \/ t \in Openers /\ snap[t].item = current
  PROVE  EndsForAReason
<1>1. victim'[t] = current
  BY DEF Retire, IInv, TypeOK
<1> QED BY <1>1 DEF EndsForAReason, EndedBy

LEMMA HandlerEnds ==
  ASSUME IInv, NEW c \in Conns, Handler(c)
  PROVE  EndsForAReason
<1> USE DEF EndsForAReason
<1>t. c \in Threads
  BY DEF Threads
<1>1. CASE current' \in Conns \/ current' = current
  BY <1>1
<1>2. CASE HelloRejected(c) \/ CloseReplacedData(c) \/ RecordRow(c)
  BY <1>2 DEF HelloRejected, CloseReplacedData, RecordRow
<1>3. CASE Hello(c)
  <2>1. current' \in Conns
    BY <1>3 DEF Hello, RegisterQUICControl, RegisterTCPControl, ReplaceItem, RegisterQUICData,
       RegisterTCPData, IInv, TypeOK
  <2> QED BY <2>1
<1>4. CASE UnregisterControl(c)
  <2>1. CASE current # None /\ IsControlOf(c, current)
    BY <1>4, <1>t, <2>1, RetireEnds DEF UnregisterControl
  <2>2. CASE ~(current # None /\ IsControlOf(c, current))
    BY <1>4, <2>2 DEF UnregisterControl
  <2> QED BY <2>1, <2>2
<1>5. CASE UnregisterQUICData(c)
  BY <1>5 DEF UnregisterQUICData
<1> QED BY <1>2, <1>3, <1>4, <1>5 DEF Handler

LEMMA OpenerEnds ==
  ASSUME IInv, NEW o \in Openers, Opener(o)
  PROVE  EndsForAReason
<1>t. o \in Threads
  BY DEF Threads
<1>1. CASE current' = current
  BY <1>1 DEF EndsForAReason
<1>2. CASE CloseDeviceIfCurrent(o)
  <2>1. CASE current = snap[o].item
    BY <1>2, <1>t, <2>1, RetireEnds DEF CloseDeviceIfCurrent
  <2>2. CASE current # snap[o].item
    BY <1>2, <2>2, <1>1 DEF CloseDeviceIfCurrent
  <2> QED BY <2>1, <2>2
<1>3. CASE OpenStream(o) \/ TakeDataConn(o) \/ NoDataConn(o) \/ OpenAcked(o)
           \/ OpenRefused(o) \/ EndSession(o)
  BY <1>1, <1>3 DEF OpenStream, TakeDataConn, NoDataConn, OpenAcked, OpenRefused, EndSession
<1>4. CASE OpenOverQUIC(o)
  BY <1>1, <1>2, <1>4 DEF OpenOverQUIC
<1>5. CASE OpenFails(o)
  BY <1>1, <1>2, <1>5 DEF OpenFails
<1> QED BY <1>3, <1>4, <1>5 DEF Opener

LEMMA StepEnds == IInv /\ [Next]_vars => EndsForAReason
<1> SUFFICES ASSUME IInv, [Next]_vars PROVE EndsForAReason
  OBVIOUS
<1>1. CASE current' = current
  BY <1>1 DEF EndsForAReason
<1>2. CASE UNCHANGED vars
  BY <1>1, <1>2 DEF vars
<1>3. CASE \E t \in Threads : Teardown(t)
  BY <1>1, <1>3 DEF Teardown, CloseItem, DrainItem, MarkRowsClosed
<1>5. CASE CloseStaleRows
  BY <1>1, <1>5 DEF CloseStaleRows
<1>4. CASE CloseDevice \/ CloseAll \/ StopReturn
  <2>1. Admin \in Threads /\ Stopper \in Threads
    BY DEF Threads
  <2>2. CASE CloseDevice
    BY <2>1, <2>2, RetireEnds DEF CloseDevice
  <2>3. CASE CloseAll
    BY <1>1, <2>1, <2>3, RetireEnds DEF CloseAll
  <2>4. CASE StopReturn
    BY <1>1, <2>4 DEF StopReturn
  <2> QED BY <1>4, <2>2, <2>3, <2>4
<1> QED BY <1>2, <1>3, <1>4, <1>5, HandlerEnds, OpenerEnds DEF Next

\* Neither the deferred cleanup of an earlier connection nor an opener that
\* read an earlier item takes the device's tunnel out of the registry: the
\* comparisons under the lock in UnregisterQUICControl, UnregisterTCPControl
\* and CloseDeviceIfCurrent are enough, whatever happened before the lock.
THEOREM TunnelsEndForAReason == Spec => TunnelEndsForAReason
<1>1. IInv /\ [Next]_vars => [EndsForAReason]_vars
  BY StepEnds
<1>2. EndsForAReason <=>
        ((current # None /\ Controlled(current) /\ current' # current) =>
           \/ current' \in Conns
           \/ \E t \in Threads :
                /\ victim'[t] = current
                /\ \/ t \in {Admin, Stopper}
                   \/ t \in Conns /\ IsControlOf(t, current)
                   \/ t \in Openers /\ snap[t].item = current)
  BY DEF EndsForAReason, EndedBy
<1> QED BY <1>1, <1>2, Invariance, PTL DEF Spec, TunnelEndsForAReason

-----------------------------------------------------------------------------
(* The rows of device_connections.  As long as the last update of the map    *)
(* met no other and Stop has not begun, at most one goroutine is between its *)
(* update of the map and its last statement, and where it is says what the   *)
(* rows still miss: whatever they held when it began, it closes them all.    *)

\* The control connections of the registered item, those with a live row, and
\* those whose row the sweep has taken.
Tunnel == IF current = None THEN {}
          ELSE {items[current].control, items[current].tcpControl} \ {None}
Enabled == {c \in Conns : rows[c] = "enabled"}
Swept == {c \in Conns : rows[c] = "swept"}

\* A goroutine that has changed the map and not yet closed the rows.
Finishing(t) == pc[t] \in {"close", "drain", "mark"}

RowShape ==
  \A c \in Conns :
    /\ pc[c] = "hello" => rows[c] = "none"
    /\ pc[c] = "serving" /\ role[c] # "data" => rows[c] # "none"
    /\ pc[c] = "closeData" => role[c] = "data"

\* A registration that has no row yet is the tunnel; any other goroutine that
\* is finishing has left the map without one.
RowsFollow ==
  /\ \A t, u \in Threads : Updating(t) /\ Updating(u) => t = u
  /\ (\A t \in Threads : ~Updating(t)) => Enabled = Tunnel \ Swept
  /\ \A t \in Threads : Finishing(t) =>
       Tunnel = IF t \in Conns /\ rows[t] = "none" THEN {t} ELSE {}
  /\ \A t \in Threads : pc[t] = "record" => t \in Conns /\ Tunnel = {t} /\ Enabled = {}

Orderly == ~overlap /\ pc[Stopper] = "idle"

RowsInv == RowShape /\ (Orderly => RowsFollow)

LEMMA InitRows == Init => RowsInv
<1> SUFFICES ASSUME Init PROVE RowsInv
  OBVIOUS
<1>1. RowShape
  BY DEF Init, RowShape, Threads
<1>2. Enabled = {} /\ Tunnel = {}
  BY DEF Init, Enabled, Tunnel
<1>3. \A t \in Threads : ~Updating(t) /\ ~Finishing(t) /\ pc[t] # "record"
  BY DEF Init, Updating, Finishing
<1> QED BY <1>1, <1>2, <1>3 DEF RowsInv, RowsFollow

\* A step that changes neither the tunnel nor the rows and in which nobody
\* begins or ends an update.
LEMMA RowsKept ==
  ASSUME RowsInv, RowShape', Tunnel' = Tunnel, rows' = rows, overlap' = overlap,
         pc'[Stopper] = "idle" => pc[Stopper] = "idle",
         \A t \in Threads : (Finishing(t)' <=> Finishing(t)) /\ (pc'[t] = "record" <=> pc[t] = "record")
  PROVE  RowsInv'
<1>1. SUFFICES ASSUME Orderly' PROVE RowsFollow'
  BY DEF RowsInv
<1>2. RowsFollow
  BY <1>1 DEF RowsInv, Orderly
<1>3. \A t \in Threads : Updating(t)' <=> Updating(t)
  BY DEF Updating, Finishing
<1>4. Enabled' = Enabled /\ Swept' = Swept
  BY DEF Enabled, Swept
<1> QED BY <1>2, <1>3, <1>4 DEF RowsFollow

\* Goroutine t changes the map: it is alone, or the rows are no longer vouched
\* for.
LEMMA RowsEnter ==
  ASSUME RowsInv, TypeOK, NEW t \in Threads, NEW l \in {"close", "mark"},
         pc' = [pc EXCEPT ![t] = l], rows' = rows, overlap' = Overlapping(t), role' = role,
         t = Stopper \/ Tunnel' = IF t \in Conns /\ rows[t] = "none" THEN {t} ELSE {}
  PROVE  RowsInv'
<1>1. pc'[t] = l /\ \A u \in Threads \ {t} : pc'[u] = pc[u]
  BY DEF TypeOK
<1>2. RowShape'
  BY <1>1 DEF RowsInv, RowShape, Threads
<1>3. SUFFICES ASSUME Orderly' PROVE RowsFollow'
  BY <1>2 DEF RowsInv
<1>4. t # Stopper
  BY <1>1, <1>3 DEF Orderly
<1>5. \A u \in Threads \ {t} : ~Updating(u)
  BY <1>3 DEF Orderly, Overlapping
<1>6. \A u \in Threads : Updating(u)' => u = t
  BY <1>1, <1>5 DEF Updating
<1>7. \A u \in Threads : Finishing(u)' => u = t
  BY <1>6 DEF Updating, Finishing
<1>8. Updating(t)' /\ \A u \in Threads : pc'[u] # "record"
  BY <1>1, <1>6 DEF Updating
<1> QED BY <1>4, <1>6, <1>7, <1>8 DEF RowsFollow

LEMMA RowsReplaced ==
  ASSUME RowsInv, IInv, NEW c \in Conns, NEW item, ReplaceItem(c, item),
         {item.control, item.tcpControl} \ {None} = {c}
  PROVE  RowsInv'
<1>1. c \in Threads /\ c # None
  BY ConnsAssumption DEF Threads, Conns
<1>2. Tunnel' = {c}
  BY <1>1 DEF ReplaceItem, Tunnel, IInv, TypeOK
<1>3. rows[c] = "none"
  BY DEF ReplaceItem, RowsInv, RowShape
<1>4. PICK l \in {"close", "mark"} : pc' = [pc EXCEPT ![c] = l]
  BY DEF ReplaceItem
<1> QED BY <1>1, <1>2, <1>3, <1>4, RowsEnter DEF ReplaceItem, IInv

LEMMA RowsRetired ==
  ASSUME RowsInv, IInv, NEW t \in Threads, Retire(t), UNCHANGED <<rows, role>>,
         t \in Conns => rows[t] # "none"
  PROVE  RowsInv'
<1>1. Tunnel' = {}
  BY DEF Retire, Tunnel
<1> QED BY <1>1, RowsEnter DEF Retire, IInv

\* The tunnel of the device depends on the control connections alone.
LEMMA TunnelKept ==
  ASSUME IInv, current' = current,
         \A i \in Conns : /\ items'[i].control = items[i].control
                          /\ items'[i].tcpControl = items[i].tcpControl
  PROVE  Tunnel' = Tunnel
BY DEF Tunnel, IInv, TypeOK

\* A data connection joins the registered item, or one without a tunnel.
LEMMA TunnelJoined ==
  ASSUME IInv, NEW c \in Conns, pc[c] = "hello",
         current' = IF current = None THEN c ELSE current,
         \A i \in Conns : /\ items'[i].control = items[i].control
                          /\ items'[i].tcpControl = items[i].tcpControl
  PROVE  Tunnel' = Tunnel
<1>1. c # None
  BY ConnsAssumption
<1>2. CASE current = None
  <2>1. items[c].control = None /\ items[c].tcpControl = None
    BY DEF IInv, Ownership, FreshUnknown, EmptyItem
  <2> QED BY <1>1, <1>2, <2>1 DEF Tunnel
<1>3. CASE current # None
  BY <1>3, TunnelKept
<1> QED BY <1>2, <1>3

LEMMA HandlerRows ==
  ASSUME RowsInv, IInv, NEW c \in Conns, Handler(c)
  PROVE  RowsInv'
<1> USE ConnsAssumption, ThreadsAssumption
<1>t. c \in Threads /\ c # Stopper /\ c # None
  BY DEF Threads
<1>m. ASSUME NEW l \in {"serving", "closeData", "done"}, pc' = [pc EXCEPT ![c] = l],
             pc[c] \in {"hello", "closeData", "serving"}
      PROVE  /\ pc'[Stopper] = pc[Stopper]
             /\ pc'[c] = l /\ \A t \in Threads \ {c} : pc'[t] = pc[t]
             /\ \A t \in Threads : (Finishing(t)' <=> Finishing(t))
                                   /\ (pc'[t] = "record" <=> pc[t] = "record")
  <2>1. pc'[c] = l /\ \A t \in Threads \ {c} : pc'[t] = pc[t]
    BY <1>m, <1>t DEF IInv, TypeOK
  <2>2. Stopper \in Threads
    BY DEF Threads
  <2> QED BY <2>1, <2>2, <1>m, <1>t DEF Finishing
<1>1. CASE HelloRejected(c)
  <2>1. Tunnel' = Tunnel
    BY <1>1, TunnelKept DEF HelloRejected
  <2>2. RowShape'
    BY <1>1, <1>m DEF HelloRejected, RowsInv, RowShape, Threads
  <2> QED BY <1>1, <1>m, <2>1, <2>2, RowsKept DEF HelloRejected
<1>2. CASE c \in QConns /\ role[c] # "data" /\ RegisterQUICControl(c)
  <2>0. PICK d \in {c, None} : d = IF role[c] = "legacy" THEN c ELSE None
    OBVIOUS
  <2>1. PICK x : x = [EmptyItem EXCEPT !.control = c, !.data = d]
    OBVIOUS
  <2>2. ReplaceItem(c, x)
    BY <1>2, <2>0, <2>1 DEF RegisterQUICControl
  <2>3. {x.control, x.tcpControl} \ {None} = {c}
    BY <2>1, <1>t DEF EmptyItem
  <2> QED BY <2>2, <2>3, RowsReplaced
<1>3. CASE c \in QConns /\ role[c] = "data" /\ RegisterQUICData(c)
  <2>1. PICK l \in {"serving", "closeData"} : pc' = [pc EXCEPT ![c] = l]
    BY <1>3 DEF RegisterQUICData
  <2>2. Tunnel' = Tunnel
    BY <1>3, TunnelJoined DEF RegisterQUICData, IInv, TypeOK
  <2>3. UNCHANGED <<role, rows, overlap>> /\ pc[c] = "hello" /\ role[c] = "data"
    BY <1>3 DEF RegisterQUICData
  <2>4. RowShape'
    BY <2>1, <2>3, <1>m DEF RowsInv, RowShape, Threads
  <2> QED BY <2>1, <2>2, <2>3, <2>4, <1>m, RowsKept
<1>4. CASE c \in TConns /\ role[c] # "data" /\ RegisterTCPControl(c)
  <2>1. PICK x : x = [EmptyItem EXCEPT !.tcpControl = c]
    OBVIOUS
  <2>2. ReplaceItem(c, x) /\ {x.control, x.tcpControl} \ {None} = {c}
    BY <1>4, <2>1, <1>t DEF RegisterTCPControl, EmptyItem
  <2> QED BY <2>2, RowsReplaced
<1>5. CASE c \in TConns /\ role[c] = "data" /\ RegisterTCPData(c)
  <2>1. UNCHANGED <<role, rows, overlap>> /\ pc[c] = "hello" /\ pc' = [pc EXCEPT ![c] = "done"]
    BY <1>5 DEF RegisterTCPData
  <2>2. Tunnel' = Tunnel
    BY <1>5, TunnelJoined DEF RegisterTCPData, IInv, TypeOK
  <2>4. RowShape'
    BY <2>1, <1>m DEF RowsInv, RowShape, Threads
  <2> QED BY <2>1, <2>2, <2>4, <1>m, RowsKept
<1>6. CASE CloseReplacedData(c)
  <2>1. Tunnel' = Tunnel
    BY <1>6, TunnelKept DEF CloseReplacedData
  <2>2. RowShape'
    BY <1>6, <1>m DEF CloseReplacedData, RowsInv, RowShape, Threads
  <2> QED BY <1>6, <1>m, <2>1, <2>2, RowsKept DEF CloseReplacedData
<1>7. CASE RecordRow(c)
  <2>1. Tunnel' = Tunnel
    BY <1>7, TunnelKept DEF RecordRow
  <2>2. pc'[c] = "serving" /\ \A t \in Threads \ {c} : pc'[t] = pc[t]
    BY <1>7, <1>t DEF RecordRow, IInv, TypeOK
  <2>3. rows'[c] = "enabled" /\ \A d \in Conns \ {c} : rows'[d] = rows[d]
    BY <1>7 DEF RecordRow, IInv, TypeOK
  <2>4. RowShape'
    BY <1>7, <2>2, <2>3 DEF RecordRow, RowsInv, RowShape, Threads
  <2>5. ASSUME Orderly' PROVE RowsFollow'
    <3>1. RowsFollow
      <4>1. Stopper \in Threads
        BY DEF Threads
      <4> QED BY <4>1, <2>5, <2>2, <1>7, <1>t DEF RowsInv, Orderly, RecordRow
    <3>2. Tunnel = {c} /\ Enabled = {}
      BY <3>1, <1>7, <1>t DEF RowsFollow, RecordRow
    <3>3. Enabled' = {c} /\ c \notin Swept'
      BY <3>2, <2>3 DEF Enabled, Swept
    <3>4. \A t \in Threads : ~Updating(t)' /\ ~Finishing(t)' /\ pc'[t] # "record"
      BY <3>1, <2>2, <1>7, <1>t DEF RowsFollow, Updating, Finishing, RecordRow
    <3> QED BY <2>1, <3>2, <3>3, <3>4 DEF RowsFollow
  <2> QED BY <2>4, <2>5 DEF RowsInv
<1>8. CASE UnregisterControl(c)
  <2>1. CASE current # None /\ IsControlOf(c, current)
    <3>1. rows[c] # "none"
      BY <1>8 DEF UnregisterControl, RowsInv, RowShape
    <3> QED BY <1>8, <1>t, <2>1, <3>1, RowsRetired DEF UnregisterControl
  <2>2. CASE ~(current # None /\ IsControlOf(c, current))
    <3>1. /\ pc' = [pc EXCEPT ![c] = "done"] /\ pc[c] = "serving"
          /\ UNCHANGED <<current, items, role, rows, overlap>>
      BY <1>8, <2>2 DEF UnregisterControl
    <3>2. RowShape'
      BY <3>1, <1>m DEF RowsInv, RowShape, Threads
    <3> QED BY <3>1, <3>2, <1>m, TunnelKept, RowsKept
  <2> QED BY <2>1, <2>2
<1>9. CASE UnregisterQUICData(c)
  <2>1. /\ pc' = [pc EXCEPT ![c] = "done"] /\ pc[c] = "serving"
        /\ UNCHANGED <<role, rows, overlap>>
    BY <1>9 DEF UnregisterQUICData
  <2>2. \A i \in Conns : /\ items'[i].control = items[i].control
                         /\ items'[i].tcpControl = items[i].tcpControl
    <3>1. CASE items' = items
      BY <3>1
    <3>2. CASE items' # items
      <4>1. current \in Conns /\ items' = [items EXCEPT ![current].data = None]
        BY <1>9, <3>2 DEF UnregisterQUICData, IInv, TypeOK
      <4>2. items \in [Conns -> Item]
        BY DEF IInv, TypeOK
      <4> QED BY <4>1, <4>2 DEF Item
    <3> QED BY <3>1, <3>2
  <2>3. Tunnel' = Tunnel
    <3>1. CASE current' = current
      BY <3>1, <2>2, TunnelKept
    <3>2. CASE current' # current
      <4>1. current' = None /\ ~Controlled(current)
        BY <1>9, <3>2 DEF UnregisterQUICData
      <4> QED BY <4>1 DEF Tunnel, Controlled
    <3> QED BY <3>1, <3>2
  <2>4. RowShape'
    BY <2>1, <1>m DEF RowsInv, RowShape, Threads
  <2> QED BY <2>1, <2>3, <2>4, <1>m, RowsKept
<1> QED BY <1>1, <1>2, <1>3, <1>4, <1>5, <1>6, <1>7, <1>8, <1>9 DEF Handler, Hello

LEMMA OpenerRows ==
  ASSUME RowsInv, IInv, NEW o \in Openers, Opener(o)
  PROVE  RowsInv'
<1> USE ConnsAssumption, ThreadsAssumption
<1>t. o \in Threads /\ o # Stopper /\ o \notin Conns /\ Stopper \in Threads
  BY DEF Threads
<1>q. ASSUME NEW l \in {"try", "ack", "fallback", "session", "idle"}, pc' = [pc EXCEPT ![o] = l],
             pc[o] \in {"try", "ack", "fallback", "session", "idle"},
             UNCHANGED <<current, role, rows, overlap>>,
             \A i \in Conns : /\ items'[i].control = items[i].control
                              /\ items'[i].tcpControl = items[i].tcpControl
      PROVE  RowsInv'
  <2>1. pc'[o] = l /\ \A t \in Threads \ {o} : pc'[t] = pc[t]
    BY <1>q, <1>t DEF IInv, TypeOK
  <2>2. \A t \in Threads : (Finishing(t)' <=> Finishing(t)) /\ (pc'[t] = "record" <=> pc[t] = "record")
    BY <2>1, <1>q DEF Finishing
  <2>3. RowShape'
    BY <2>1, <1>q, <1>t DEF RowsInv, RowShape, Threads
  <2>4. Tunnel' = Tunnel
    BY <1>q, TunnelKept
  <2> QED BY <2>1, <2>2, <2>3, <2>4, <1>q, <1>t, RowsKept
<1>r. CASE CloseDeviceIfCurrent(o) /\ pc[o] = "fallback" /\ UNCHANGED <<items, role, rows>>
  <2>1. CASE current = snap[o].item
    BY <1>r, <1>t, <2>1, RowsRetired DEF CloseDeviceIfCurrent
  <2>2. CASE current # snap[o].item
    BY <1>r, <2>2, <1>q DEF CloseDeviceIfCurrent, Return
  <2> QED BY <2>1, <2>2
<1>1. CASE OpenStream(o)
  BY <1>1, <1>q DEF OpenStream
<1>2. CASE TakeDataConn(o)
  <2>1. \A i \in Conns : /\ items'[i].control = items[i].control
                         /\ items'[i].tcpControl = items[i].tcpControl
    BY <1>2 DEF TakeDataConn, IInv, TypeOK
  <2> QED BY <1>2, <2>1, <1>q DEF TakeDataConn
<1>3. CASE NoDataConn(o) \/ OpenAcked(o)
  BY <1>3, <1>q DEF NoDataConn, OpenAcked
<1>5. CASE OpenRefused(o)
  BY <1>5, <1>q DEF OpenRefused
<1>6. CASE OpenOverQUIC(o)
  BY <1>6, <1>q, <1>r DEF OpenOverQUIC, Return
<1>7. CASE OpenFails(o)
  BY <1>7, <1>q, <1>r DEF OpenFails, Return
<1>8. CASE EndSession(o)
  BY <1>8, <1>q DEF EndSession, Return
<1> QED BY <1>1, <1>2, <1>3, <1>5, <1>6, <1>7, <1>8 DEF Opener

LEMMA TeardownRows ==
  ASSUME RowsInv, IInv, NEW t \in Threads, Teardown(t)
  PROVE  RowsInv'
<1> USE ConnsAssumption, ThreadsAssumption
<1>s. Stopper \in Threads
  BY DEF Threads
<1>1. CASE CloseItem(t)
  <2>1. pc[t] = "close" /\ pc'[t] = "drain" /\ \A u \in Threads \ {t} : pc'[u] = pc[u]
    BY <1>1 DEF CloseItem, IInv, TypeOK
  <2>2. \A u \in Threads : (Finishing(u)' <=> Finishing(u)) /\ (pc'[u] = "record" <=> pc[u] = "record")
    BY <2>1 DEF Finishing
  <2>3. RowShape'
    BY <1>1, <2>1 DEF CloseItem, RowsInv, RowShape, Threads
  <2>4. Tunnel' = Tunnel
    BY <1>1, TunnelKept DEF CloseItem
  <2> QED BY <1>1, <1>s, <2>1, <2>2, <2>3, <2>4, RowsKept DEF CloseItem
<1>2. CASE DrainItem(t)
  <2>1. UNCHANGED <<current, role, pc, rows, overlap>>
    BY <1>2 DEF DrainItem
  <2>2. \A i \in Conns : /\ items'[i].control = items[i].control
                         /\ items'[i].tcpControl = items[i].tcpControl
    BY <1>2 DEF DrainItem, IInv, TypeOK
  <2>3. Tunnel' = Tunnel
    BY <2>1, <2>2, TunnelKept
  <2>4. RowShape'
    BY <2>1 DEF RowsInv, RowShape
  <2> QED BY <2>1, <2>3, <2>4, RowsKept DEF Finishing
<1>3. CASE MarkRowsClosed(t)
  <2>1. t # Stopper /\ Finishing(t)
    BY <1>3 DEF MarkRowsClosed, Drained, Finishing
  <2>2. pc'[t] = AfterMark(t) /\ \A u \in Threads \ {t} : pc'[u] = pc[u]
    BY <1>3 DEF MarkRowsClosed, IInv, TypeOK
  <2>3. /\ \A c \in Conns : rows'[c] # "enabled" /\ (rows'[c] = "none" <=> rows[c] = "none")
        /\ role' = role /\ overlap' = overlap
    BY <1>3 DEF MarkRowsClosed, IInv, TypeOK
  <2>4. Tunnel' = Tunnel
    BY <1>3, TunnelKept DEF MarkRowsClosed
  <2>5. RowShape'
    BY <2>1, <2>2, <2>3 DEF RowsInv, RowShape, Threads, AfterMark
  <2>6. ASSUME Orderly' PROVE RowsFollow'
    <3>1. RowsFollow
      BY <1>s, <2>1, <2>2, <2>3, <2>6 DEF RowsInv, Orderly
    <3>2. Enabled' = {}
      BY <2>3 DEF Enabled
    <3>3. Tunnel = IF t \in Conns /\ rows[t] = "none" THEN {t} ELSE {}
      BY <2>1, <3>1 DEF RowsFollow
    <3>4. \A u \in Threads \ {t} : ~Updating(u)' /\ ~Finishing(u)' /\ pc'[u] # "record"
      BY <2>1, <2>2, <3>1 DEF RowsFollow, Updating, Finishing
    <3>5. CASE t \in Conns /\ rows[t] = "none"
      <4>1. pc'[t] = "record"
        BY <2>2, <3>5 DEF AfterMark
      <4>2. ~Finishing(t)' /\ Updating(t)'
        BY <4>1 DEF Finishing, Updating
      <4> QED BY <2>4, <3>2, <3>3, <3>4, <3>5, <4>1, <4>2 DEF RowsFollow
    <3>6. CASE ~(t \in Conns /\ rows[t] = "none")
      <4>1. pc'[t] \in {"idle", "done"}
        BY <2>2, <3>6 DEF AfterMark
      <4>2. ~Finishing(t)' /\ ~Updating(t)'
        BY <4>1 DEF Finishing, Updating
      <4> QED BY <2>4, <3>2, <3>3, <3>4, <3>6, <4>1, <4>2 DEF RowsFollow
    <3> QED BY <3>5, <3>6
  <2> QED BY <2>5, <2>6 DEF RowsInv
<1> QED BY <1>1, <1>2, <1>3 DEF Teardown

\* The sweep moves rows from the enabled to the swept ones, wherever the
\* registrations are.
LEMMA RowsSwept ==
  ASSUME RowsInv, IInv, CloseStaleRows
  PROVE  RowsInv'
<1>1. PICK stale \in SUBSET Enabled :
        /\ rows' = [c \in Conns |-> IF c \in stale THEN "swept" ELSE rows[c]]
        /\ UNCHANGED <<current, items, role, pc, victim, closed, snap, held, overlap>>
  BY DEF CloseStaleRows, Enabled
<1>2. stale \subseteq Conns /\ Enabled' = Enabled \ stale /\ Swept' = Swept \cup stale
  BY <1>1 DEF Enabled, Swept
<1>3. \A c \in Conns : rows'[c] = "none" <=> rows[c] = "none"
  BY <1>1 DEF Enabled
<1>4. RowShape'
  BY <1>1, <1>3 DEF RowsInv, RowShape
<1>5. Tunnel' = Tunnel
  BY <1>1 DEF Tunnel
<1>6. \A t \in Threads : (Updating(t)' <=> Updating(t)) /\ (Finishing(t)' <=> Finishing(t))
  BY <1>1 DEF Updating, Finishing
<1>7. ASSUME Orderly' PROVE RowsFollow'
  <2>1. RowsFollow
    BY <1>1, <1>7 DEF RowsInv, Orderly
  <2>2. (\A t \in Threads : ~Updating(t)) => Enabled' = Tunnel \ Swept'
    BY <1>2, <2>1 DEF RowsFollow
  <2>3. \A t \in Threads : pc[t] = "record" => t \in Conns /\ Tunnel = {t} /\ Enabled' = {}
    BY <1>2, <2>1 DEF RowsFollow
  <2>4. \A t \in Threads : Finishing(t) =>
          Tunnel = IF t \in Conns /\ rows'[t] = "none" THEN {t} ELSE {}
    BY <1>3, <2>1 DEF RowsFollow
  <2> QED BY <1>1, <1>5, <1>6, <2>1, <2>2, <2>3, <2>4 DEF RowsFollow
<1> QED BY <1>4, <1>7 DEF RowsInv

LEMMA NextRows == IInv /\ RowsInv /\ [Next]_vars => RowsInv'
<1> SUFFICES ASSUME IInv, RowsInv, [Next]_vars PROVE RowsInv'
  OBVIOUS
<1> USE ConnsAssumption, ThreadsAssumption
<1>t. Admin \in Threads /\ Stopper \in Threads /\ Admin # Stopper
      /\ Admin \notin Conns /\ Stopper \notin Conns
  BY DEF Threads
<1>1. CASE UNCHANGED vars
  <2>1. Tunnel' = Tunnel /\ Enabled' = Enabled /\ (RowShape' <=> RowShape) /\ (Orderly' <=> Orderly)
    BY <1>1 DEF vars, Tunnel, Enabled, RowShape, Orderly
  <2>3. Swept' = Swept
    BY <1>1 DEF vars, Swept
  <2>2. \A t : (Updating(t)' <=> Updating(t)) /\ (Finishing(t)' <=> Finishing(t))
    BY <1>1 DEF vars, Updating, Finishing
  <2> QED BY <1>1, <2>1, <2>2, <2>3 DEF vars, RowsInv, RowsFollow
<1>2. CASE CloseDevice
  BY <1>2, <1>t, RowsRetired DEF CloseDevice
<1>3. CASE CloseAll
  <2>1. CASE current # None
    BY <1>3, <1>t, <2>1, RowsRetired DEF CloseAll
  <2>2. CASE current = None
    <3>1. pc'[Stopper] = "mark" /\ \A u \in Threads \ {Stopper} : pc'[u] = pc[u]
      BY <1>3, <1>t, <2>2 DEF CloseAll, IInv, TypeOK
    <3>2. RowShape'
      BY <1>3, <1>t, <3>1 DEF CloseAll, RowsInv, RowShape, Threads
    <3> QED BY <3>1, <3>2 DEF RowsInv, Orderly
  <2> QED BY <2>1, <2>2
<1>4. CASE StopReturn
  <2>1. pc'[Stopper] = "done" /\ \A u \in Threads \ {Stopper} : pc'[u] = pc[u]
    BY <1>4, <1>t DEF StopReturn, IInv, TypeOK
  <2>2. RowShape'
    BY <1>4, <1>t, <2>1 DEF StopReturn, RowsInv, RowShape, Threads
  <2> QED BY <2>1, <2>2 DEF RowsInv, Orderly
<1>5. CASE CloseStaleRows
  BY <1>5, RowsSwept
<1> QED BY <1>1, <1>2, <1>3, <1>4, <1>5, HandlerRows, OpenerRows, TeardownRows DEF Next

\* device_connections names the device's tunnel and nothing else after every
\* registration or teardown that met no other: closing the old rows and
\* inserting the new one (markDeviceConnectionsClosed, then
\* recordDeviceConnection) misses no row and leaves none behind, whatever an
\* earlier overlap left.  Only closeStaleDeviceConnections may take the tunnel's
\* own row away.
THEOREM RowsAreTheTunnel == Spec => []RowsFollowRegistry
<1>1. Spec => []RowsInv
  BY Invariance, InitRows, NextRows, PTL DEF Spec
<1>2. RowsInv => RowsFollowRegistry
  BY DEF RowsInv, Orderly, RowsFollow, RowsFollowRegistry, Enabled, Tunnel, Swept
<1> QED BY <1>1, <1>2, PTL
=============================================================================
