------------------------- MODULE DeviceTokensProofs -------------------------
(***************************************************************************)
(* Proofs about DeviceTokens, for any number of validations and            *)
(* administrators, any TTL, cache size and expire times.  The invariant    *)
(* follows a time bound from the row a validation read, through the value  *)
(* it is about to cache, into the cache and to the acceptances the cache   *)
(* gives.                                                                  *)
(***************************************************************************)
EXTENDS DeviceTokens, FiniteSetTheorems, TLAPS

\* Only tokens that have been created are in rows, in the cache or accepted.
OnlyCreated ==
  /\ \A t \in Tokens : cache[t] # 0 => t <= created
  /\ \A r \in Rows : Present(r) => rows[r].token <= created
  /\ \A v \in Validators : pc[v] \in {"cache", "accepted"} => token[v] <= created

\* A validation under way has a token, and a start that is not in the future.
UnderWay ==
  \A v \in Validators :
    pc[v] # "idle" => token[v] \in Tokens /\ start[v] <= now

\* lastEnabled is up to date, and a row keeps the expire time of its token.
Observed ==
  /\ \A t \in Tokens : lastEnabled[t] <= now
  /\ \A t \in Tokens : Enabled(t) => lastEnabled[t] = now
  /\ \A r \in Rows : Present(r) => rows[r].expire = expireOf[rows[r].token]

\* What limits an entry: TTL after its token was last enabled, and the expire
\* time of its token.
Within(limit, t) ==
  /\ limit <= lastEnabled[t] + TTL
  /\ expireOf[t] # 0 => limit <= expireOf[t]

CacheWithin == \A t \in Tokens : cache[t] # 0 => Within(cache[t], t)

PendingWithin ==
  \A v \in Validators : pc[v] = "cache" =>
    /\ Within(expiresAt[v], token[v])
    /\ start[v] <= lastEnabled[token[v]]
    /\ expireOf[token[v]] # 0 => start[v] < expireOf[token[v]]

IInv ==
  /\ TypeOK /\ OnlyCreated /\ UnderWay /\ Observed /\ CacheWithin /\ PendingWithin
  /\ StaleBound /\ ExpiryRespected /\ RevocationReachesCache

-----------------------------------------------------------------------------
(* The cache's size.                                                       *)

LEMMA TokensFinite == IsFiniteSet(Tokens)
<1>1. 1 \in Int /\ MaxToken \in Int
  BY TimeAssumption
<1> QED BY <1>1, FS_Interval DEF Tokens

\* Entries only go: the cache stays within its size.
LEMMA FewerEntries ==
  ASSUME Cardinality(Entries) <= CacheMax, Entries' \subseteq Entries
  PROVE  Cardinality(Entries)' <= CacheMax
<1>1. IsFiniteSet(Entries) /\ IsFiniteSet(Entries')
  BY TokensFinite, FS_Subset DEF Entries
<1>2. Cardinality(Entries') <= Cardinality(Entries)
  BY <1>1, FS_Subset
<1>3. Cardinality(Entries) \in Nat /\ Cardinality(Entries') \in Nat
  BY <1>1, FS_CardinalityType
<1> QED BY <1>2, <1>3, TimeAssumption

\* After the eviction one more entry fits.
LEMMA RoomForOne ==
  ASSUME NEW kept \in SUBSET Tokens, NEW evicted \in SUBSET kept, NEW t \in Tokens,
         Cardinality(evicted) = Excess(kept)
  PROVE  Cardinality((kept \ evicted) \cup {t}) <= CacheMax
<1> DEFINE left == kept \ evicted
<1>1. IsFiniteSet(kept) /\ IsFiniteSet(evicted) /\ IsFiniteSet(left)
  BY TokensFinite, FS_Subset
<1>2. /\ Cardinality(kept) \in Nat /\ Cardinality(evicted) \in Nat /\ Cardinality(left) \in Nat
      /\ Cardinality(left \cup {t}) \in Nat
  BY <1>1, FS_CardinalityType, FS_AddElement
<1>3. Cardinality(left) = Cardinality(kept) - Cardinality(kept \cap evicted)
  BY <1>1, FS_Difference
<1>4. kept \cap evicted = evicted
  OBVIOUS
<1>5. Cardinality(left) + 1 <= CacheMax
  <2>1. Cardinality(left) = Cardinality(kept) - Excess(kept)
    BY <1>3, <1>4
  <2>2. \A k \in Nat : k - (IF k >= CacheMax THEN k + 1 - CacheMax ELSE 0) + 1 <= CacheMax
    BY TimeAssumption
  <2> QED BY <2>1, <2>2, <1>2 DEF Excess
<1>6. Cardinality(left \cup {t}) <= Cardinality(left) + 1
  <2>1. Cardinality(left \cup {t}) = IF t \in left THEN Cardinality(left) ELSE Cardinality(left) + 1
    BY <1>1, FS_AddElement
  <2> QED BY <2>1, <1>2
<1> QED BY <1>2, <1>5, <1>6, TimeAssumption

-----------------------------------------------------------------------------
LEMMA InitIInv == Init => IInv
<1> SUFFICES ASSUME Init PROVE IInv
  OBVIOUS
<1> USE TimeAssumption, ActorsAssumption
<1>1. Entries = {}
  BY DEF Init, Entries
<1>2. Cardinality(Entries) <= CacheMax
  BY <1>1, FS_EmptySet
<1>3. TypeOK
  <2>1. 0 \in Time /\ 0 \in 0 .. MaxToken
    BY DEF Time
  <2> QED BY <2>1, <1>2 DEF Init, TypeOK
<1>4. \A r \in Rows : ~Present(r)
  BY DEF Init, Present
<1>5. \A t \in Tokens : ~Enabled(t)
  BY <1>4 DEF Enabled
<1> QED BY <1>3, <1>4, <1>5 DEF Init, IInv, OnlyCreated, UnderWay, Observed, CacheWithin,
     PendingWithin, StaleBound, ExpiryRespected, RevocationReachesCache

\* A step of a validation changes no row and leaves the clock alone.
LEMMA SameRows ==
  ASSUME UNCHANGED rows
  PROVE  /\ \A r : Present(r)' <=> Present(r)
         /\ \A t : Enabled(t)' <=> Enabled(t)
BY DEF Present, Enabled

LEMMA BeginStep ==
  ASSUME IInv, NEW v \in Validators, Begin(v)
  PROVE  IInv'
<1> USE DEF IInv, Begin, store
<1> USE TimeAssumption, ActorsAssumption
<1>1. TypeOK'
  BY DEF TypeOK, Entries, Time
<1>2. OnlyCreated' /\ UnderWay' /\ Observed'
  BY SameRows DEF TypeOK, OnlyCreated, UnderWay, Observed, Time
<1>3. CacheWithin' /\ PendingWithin'
  BY DEF TypeOK, CacheWithin, PendingWithin, Within
<1>4. StaleBound' /\ ExpiryRespected'
  BY DEF TypeOK, StaleBound, ExpiryRespected
<1>5. RevocationReachesCache'
  BY SameRows DEF TypeOK, RevocationReachesCache
<1> QED BY <1>1, <1>2, <1>3, <1>4, <1>5

LEMMA LookupStep ==
  ASSUME IInv, NEW v \in Validators, Lookup(v)
  PROVE  IInv'
<1> USE DEF IInv, Lookup, store, validation
<1> USE TimeAssumption, ActorsAssumption
<1>a. token[v] \in Tokens /\ start[v] \in Nat /\ cache[token[v]] \in Nat
  BY DEF UnderWay, TypeOK, Time
<1>b. \A t \in Tokens : cache'[t] # 0 => cache'[t] = cache[t]
  BY <1>a DEF TypeOK
<1>1. TypeOK'
  <2>1. Cardinality(Entries)' <= CacheMax
    BY <1>b, FewerEntries DEF Entries, TypeOK
  <2> QED BY <2>1, <1>a DEF TypeOK
<1>2. OnlyCreated'
  BY <1>a, <1>b, SameRows DEF TypeOK, OnlyCreated
<1>3. UnderWay' /\ Observed'
  BY SameRows DEF TypeOK, UnderWay, Observed
<1>4. CacheWithin' /\ PendingWithin'
  BY <1>b DEF TypeOK, CacheWithin, PendingWithin, Within
<1>5. StaleBound' /\ ExpiryRespected'
  <2> SUFFICES ASSUME NEW w \in Validators, pc'[w] = "accepted"
               PROVE  /\ start[w] < lastEnabled[token[w]] + TTL
                      /\ expireOf[token[w]] # 0 => start[w] < expireOf[token[w]]
    BY DEF StaleBound, ExpiryRespected
  <2>1. CASE w # v
    BY <2>1 DEF TypeOK, StaleBound, ExpiryRespected
  <2>2. CASE w = v
    <3>1. cache[token[v]] > start[v]
      BY <2>2 DEF TypeOK
    <3>2. Within(cache[token[v]], token[v])
      BY <3>1, <1>a DEF CacheWithin
    <3>3. lastEnabled[token[v]] \in Nat /\ expireOf[token[v]] \in Nat
      BY <1>a DEF TypeOK, Time
    <3> QED BY <2>2, <3>1, <3>2, <3>3, <1>a DEF Within
  <2> QED BY <2>1, <2>2
<1>6. RevocationReachesCache'
  BY <1>b, SameRows DEF TypeOK, RevocationReachesCache
<1> QED BY <1>1, <1>2, <1>3, <1>4, <1>5, <1>6

LEMMA ReadRowStep ==
  ASSUME IInv, NEW v \in Validators, ReadRow(v)
  PROVE  IInv'
<1> USE DEF IInv, store
<1> USE TimeAssumption, ActorsAssumption
<1>u. pc[v] = "read" /\ UNCHANGED <<now, rows, created, deleted, expireOf, lastEnabled, cache,
                                    lastSweep, found, raced>>
  BY DEF ReadRow
<1>a. token[v] \in Tokens /\ start[v] \in Nat /\ start[v] <= now /\ now \in Nat
  BY <1>u DEF UnderWay, TypeOK, Time
<1>1. CASE Refuse(v)
  <2> USE DEF Refuse
  <2>1. TypeOK'
    BY <1>u, <1>1 DEF TypeOK, Entries, Time
  <2>2. OnlyCreated' /\ UnderWay' /\ Observed'
    BY <1>u, <1>1, SameRows DEF TypeOK, OnlyCreated, UnderWay, Observed
  <2>3. CacheWithin' /\ PendingWithin'
    BY <1>u, <1>1 DEF TypeOK, CacheWithin, PendingWithin, Within
  <2>4. StaleBound' /\ ExpiryRespected' /\ RevocationReachesCache'
    BY <1>u, <1>1, SameRows DEF TypeOK, StaleBound, ExpiryRespected, RevocationReachesCache
  <2> QED BY <2>1, <2>2, <2>3, <2>4
<1>2. ASSUME NEW r \in Rows, Acceptable(r, v),
             expiresAt' = [expiresAt EXCEPT ![v] = CacheUntil(r, v)],
             pc' = [pc EXCEPT ![v] = "cache"], UNCHANGED <<token, start>>
      PROVE  IInv'
  <2>1. /\ rows[r].token = token[v] /\ Enabled(token[v]) /\ rows[r].expire \in Nat
        /\ rows[r].expire = expireOf[token[v]]
        /\ rows[r].expire = 0 \/ rows[r].expire > start[v]
        /\ token[v] <= created
    BY <1>2 DEF Acceptable, Enabled, Observed, OnlyCreated, TypeOK, Row, Present
  <2>2. lastEnabled[token[v]] = now
    BY <2>1, <1>a DEF Observed
  <2>3. /\ CacheUntil(r, v) \in Nat /\ CacheUntil(r, v) <= start[v] + TTL
        /\ expireOf[token[v]] # 0 => CacheUntil(r, v) <= expireOf[token[v]]
    BY <2>1, <1>a DEF CacheUntil
  <2>4. TypeOK'
    BY <1>u, <1>2, <2>3 DEF TypeOK, Entries
  <2>5. OnlyCreated' /\ UnderWay' /\ Observed'
    BY <1>u, <1>2, <2>1, SameRows DEF TypeOK, OnlyCreated, UnderWay, Observed
  <2>6. CacheWithin'
    BY <1>u, <1>2 DEF TypeOK, CacheWithin, Within
  <2>7. PendingWithin'
    <3> SUFFICES ASSUME NEW w \in Validators, pc'[w] = "cache"
                 PROVE  /\ Within(expiresAt'[w], token[w])
                        /\ start[w] <= lastEnabled[token[w]]
                        /\ expireOf[token[w]] # 0 => start[w] < expireOf[token[w]]
      BY <1>u, <1>2 DEF PendingWithin, Within
    <3>1. CASE w = v
      BY <3>1, <1>2, <1>a, <2>1, <2>2, <2>3 DEF Within, TypeOK
    <3>2. CASE w # v
      BY <3>2, <1>2 DEF PendingWithin, TypeOK
    <3> QED BY <3>1, <3>2
  <2>8. StaleBound' /\ ExpiryRespected' /\ RevocationReachesCache'
    BY <1>u, <1>2, SameRows DEF TypeOK, StaleBound, ExpiryRespected, RevocationReachesCache
  <2> QED BY <2>4, <2>5, <2>6, <2>7, <2>8
<1> QED BY <1>1, <1>2 DEF ReadRow

LEMMA CacheValidationStep ==
  ASSUME IInv, NEW v \in Validators, CacheValidation(v)
  PROVE  IInv'
<1> USE DEF IInv, store
<1> USE TimeAssumption, ActorsAssumption
<1>k. PICK kept \in SUBSET Entries : \E evicted \in SUBSET kept :
        /\ Cardinality(evicted) = Excess(kept)
        /\ cache' = [t \in Tokens |-> IF t = token[v] THEN expiresAt[v]
                                      ELSE IF t \in kept \ evicted THEN cache[t] ELSE 0]
  BY DEF CacheValidation
<1>1. PICK evicted \in SUBSET kept :
        /\ Cardinality(evicted) = Excess(kept)
        /\ cache' = [t \in Tokens |-> IF t = token[v] THEN expiresAt[v]
                                      ELSE IF t \in kept \ evicted THEN cache[t] ELSE 0]
  BY <1>k
<1>2. /\ pc[v] = "cache" /\ pc' = [pc EXCEPT ![v] = "accepted"]
      /\ expiresAt' = [expiresAt EXCEPT ![v] = 0]
      /\ raced' = IF Enabled(token[v]) THEN raced ELSE raced \cup {token[v]}
      /\ lastSweep' \in {now, lastSweep}
      /\ UNCHANGED <<now, rows, created, deleted, expireOf, lastEnabled, token, start, found>>
  BY DEF CacheValidation
<1>a. token[v] \in Tokens /\ start[v] \in Nat /\ token[v] <= created /\ expiresAt[v] \in Nat
  BY <1>2 DEF UnderWay, TypeOK, Time, OnlyCreated
<1>b. \A t \in Tokens : cache'[t] # 0 => (t = token[v] /\ cache'[t] = expiresAt[v]) \/ cache'[t] = cache[t]
  BY <1>1
<1>3. TypeOK'
  <2>1. Cardinality(Entries)' <= CacheMax
    <3>1. Entries' \subseteq (kept \ evicted) \cup {token[v]}
      BY <1>1 DEF Entries
    <3>2. Cardinality((kept \ evicted) \cup {token[v]}) <= CacheMax
      BY <1>1, <1>a, RoomForOne DEF Entries
    <3>3. IsFiniteSet((kept \ evicted) \cup {token[v]})
      BY <1>a, TokensFinite, FS_Subset DEF Entries
    <3>4. /\ Cardinality(Entries') <= Cardinality((kept \ evicted) \cup {token[v]})
          /\ IsFiniteSet(Entries')
      BY <3>1, <3>3, FS_Subset
    <3>5. Cardinality(Entries') \in Nat /\ Cardinality((kept \ evicted) \cup {token[v]}) \in Nat
      BY <3>3, <3>4, FS_CardinalityType
    <3> QED BY <3>2, <3>4, <3>5
  <2>2. cache' \in [Tokens -> Nat]
    BY <1>1, <1>a DEF TypeOK
  <2> QED BY <2>1, <2>2, <1>2, <1>a DEF TypeOK
<1>4. OnlyCreated'
  BY <1>a, <1>b, <1>2, SameRows DEF TypeOK, OnlyCreated
<1>5. UnderWay' /\ Observed'
  BY <1>2, SameRows DEF TypeOK, UnderWay, Observed
<1>6. CacheWithin' /\ PendingWithin'
  BY <1>a, <1>b, <1>2 DEF TypeOK, CacheWithin, PendingWithin, Within
<1>7. StaleBound' /\ ExpiryRespected'
  <2> SUFFICES ASSUME NEW w \in Validators, pc'[w] = "accepted"
               PROVE  /\ start[w] < lastEnabled[token[w]] + TTL
                      /\ expireOf[token[w]] # 0 => start[w] < expireOf[token[w]]
    BY <1>2 DEF StaleBound, ExpiryRespected
  <2>1. CASE w # v
    BY <2>1, <1>2 DEF TypeOK, StaleBound, ExpiryRespected
  <2>2. CASE w = v
    <3>1. lastEnabled[token[v]] \in Nat
      BY <1>a DEF TypeOK, Time
    <3> QED BY <2>2, <3>1, <1>a, <1>2 DEF PendingWithin
  <2> QED BY <2>1, <2>2
<1>8. RevocationReachesCache'
  BY <1>a, <1>b, <1>2, SameRows DEF TypeOK, RevocationReachesCache
<1> QED BY <1>3, <1>4, <1>5, <1>6, <1>7, <1>8

\* Observing the rows keeps lastEnabled up to date and never lowers it.
LEMMA ObserveFacts ==
  ASSUME IInv, Observe, now' \in Time, now <= now'
  PROVE  /\ lastEnabled' \in [Tokens -> Time]
         /\ \A t \in Tokens : lastEnabled[t] <= lastEnabled'[t] /\ lastEnabled'[t] <= now'
         /\ \A t \in Tokens : Enabled(t)' => lastEnabled'[t] = now'
<1>1. \A t \in Tokens : lastEnabled[t] \in Nat /\ lastEnabled[t] <= now
  BY DEF IInv, TypeOK, Observed, Time
<1>2. now \in Nat /\ now' \in Nat
  BY DEF IInv, TypeOK, Time
<1>3. lastEnabled \in [Tokens -> Time]
  BY DEF IInv, TypeOK
<1> DEFINE on(t) == Enabled(t)'
<1>4. lastEnabled' = [t \in Tokens |-> IF on(t) THEN now' ELSE lastEnabled[t]]
  BY DEF Observe
<1> HIDE DEF on
<1>5. /\ lastEnabled' \in [Tokens -> Time]
      /\ \A t \in Tokens : lastEnabled[t] <= lastEnabled'[t] /\ lastEnabled'[t] <= now'
      /\ \A t \in Tokens : on(t) => lastEnabled'[t] = now'
  BY <1>1, <1>2, <1>3, <1>4
<1> QED BY <1>5 DEF on

\* A later lastEnabled only widens the limits.
LEMMA LimitsKept ==
  ASSUME IInv, UNCHANGED <<cache, token, start, expiresAt>>,
         lastEnabled' \in [Tokens -> Time], expireOf' \in [Tokens -> Nat],
         \A t \in Tokens : lastEnabled[t] <= lastEnabled'[t],
         \A t \in Tokens : t <= created => expireOf'[t] = expireOf[t],
         \A v \in Validators : pc'[v] = pc[v]
  PROVE  CacheWithin' /\ PendingWithin' /\ StaleBound' /\ ExpiryRespected'
<1> USE DEF IInv
<1> USE TimeAssumption
<1>1. \A t \in Tokens : lastEnabled[t] \in Nat /\ lastEnabled'[t] \in Nat
  BY DEF TypeOK, Time
<1>2. ASSUME NEW t \in Tokens, t <= created, NEW n \in Nat, Within(n, t)
      PROVE  Within(n, t)'
  BY <1>1, <1>2 DEF Within
<1>3. CacheWithin'
  BY <1>2 DEF CacheWithin, OnlyCreated, TypeOK
<1>4. PendingWithin'
  <2> SUFFICES ASSUME NEW v \in Validators, pc[v] = "cache"
               PROVE  /\ Within(expiresAt[v], token[v])'
                      /\ start[v] <= lastEnabled'[token[v]]
                      /\ expireOf'[token[v]] # 0 => start[v] < expireOf'[token[v]]
    BY DEF PendingWithin
  <2>1. token[v] \in Tokens /\ token[v] <= created /\ expiresAt[v] \in Nat /\ start[v] \in Nat
    BY DEF UnderWay, OnlyCreated, TypeOK, Time
  <2>2. Within(expiresAt[v], token[v])'
    BY <2>1, <1>2 DEF PendingWithin
  <2> QED BY <2>1, <2>2, <1>1 DEF PendingWithin
<1>5. StaleBound' /\ ExpiryRespected'
  <2> SUFFICES ASSUME NEW v \in Validators, pc[v] = "accepted"
               PROVE  /\ start[v] < lastEnabled'[token[v]] + TTL
                      /\ expireOf'[token[v]] # 0 => start[v] < expireOf'[token[v]]
    BY DEF StaleBound, ExpiryRespected
  <2>1. token[v] \in Tokens /\ token[v] <= created /\ start[v] \in Nat
    BY DEF UnderWay, OnlyCreated, TypeOK, Time
  <2> QED BY <2>1, <1>1 DEF StaleBound, ExpiryRespected
<1> QED BY <1>3, <1>4, <1>5

LEMMA TickStep ==
  ASSUME IInv, Tick
  PROVE  IInv'
<1> USE DEF IInv, validation
<1> USE TimeAssumption, ActorsAssumption
<1>1. /\ now' \in Time /\ now <= now' /\ Observe /\ rows' = rows
      /\ UNCHANGED <<created, deleted, cache, lastSweep, pc, token, start, expiresAt, found,
                     expireOf, raced>>
  BY DEF Tick, TypeOK, Time
<1>2. /\ lastEnabled' \in [Tokens -> Time]
      /\ \A t \in Tokens : lastEnabled[t] <= lastEnabled'[t] /\ lastEnabled'[t] <= now'
      /\ \A t \in Tokens : Enabled(t)' => lastEnabled'[t] = now'
  BY <1>1, ObserveFacts
<1>3. TypeOK'
  BY <1>1, <1>2 DEF TypeOK, Entries
<1>4. OnlyCreated' /\ RevocationReachesCache'
  BY <1>1, SameRows DEF OnlyCreated, RevocationReachesCache
<1>5. UnderWay'
  <2>1. now \in Nat /\ now' \in Nat /\ \A v \in Validators : start[v] \in Nat
    BY <1>1 DEF TypeOK, Time
  <2> QED BY <2>1, <1>1 DEF UnderWay
<1>6. Observed'
  BY <1>1, <1>2, SameRows DEF Observed
<1>7. CacheWithin' /\ PendingWithin' /\ StaleBound' /\ ExpiryRespected'
  <2>1. expireOf' \in [Tokens -> Nat]
    BY <1>1 DEF TypeOK
  <2> QED BY <1>1, <1>2, <2>1, LimitsKept
<1> QED BY <1>3, <1>4, <1>5, <1>6, <1>7

\* An administrator changes the rows and has the cache to clear.
LEMMA ChangeStep ==
  ASSUME IInv, NEW a \in Admins, Observe, now' = now,
         pc' = [pc EXCEPT ![a] = "invalidate"],
         UNCHANGED <<cache, lastSweep, token, start, expiresAt, raced>>,
         rows' \in [Rows -> Row \cup {NoRow}], created' \in created .. MaxToken,
         deleted' \in BOOLEAN, found' \in [Admins -> Rows \cup {NoRow}],
         expireOf' \in [Tokens -> Nat],
         \A t \in Tokens : t <= created => expireOf'[t] = expireOf[t],
         \A r \in Rows : Present(r)' =>
           rows'[r].token <= created' /\ rows'[r].expire = expireOf'[rows'[r].token]
  PROVE  IInv'
<1> USE DEF IInv
<1> USE TimeAssumption, ActorsAssumption
<1>1. created \in Nat /\ created' \in 0 .. MaxToken /\ created <= created' /\ now \in Time /\ now \in Nat
  BY DEF TypeOK, Time
<1>2. /\ lastEnabled' \in [Tokens -> Time]
      /\ \A t \in Tokens : lastEnabled[t] <= lastEnabled'[t] /\ lastEnabled'[t] <= now'
      /\ \A t \in Tokens : Enabled(t)' => lastEnabled'[t] = now'
  BY <1>1, ObserveFacts
<1>3. \A v \in Validators : pc'[v] = pc[v]
  BY DEF TypeOK
<1>4. TypeOK'
  BY <1>1, <1>2 DEF TypeOK, Entries
<1>5. OnlyCreated' /\ UnderWay'
  <2>1. \A t \in Tokens : t \in Nat
    BY DEF Tokens
  <2> QED BY <2>1, <1>1, <1>3 DEF OnlyCreated, UnderWay, TypeOK
<1>6. Observed'
  BY <1>2 DEF Observed
<1>7. CacheWithin' /\ PendingWithin' /\ StaleBound' /\ ExpiryRespected'
  BY <1>2, <1>3, LimitsKept
<1>8. RevocationReachesCache'
  BY DEF RevocationReachesCache, TypeOK
<1> QED BY <1>4, <1>5, <1>6, <1>7, <1>8

\* An administrator's step that changes no row.
LEMMA AdministerStep ==
  ASSUME IInv, NEW a \in Admins, Administer(a)
  PROVE  IInv'
<1> USE DEF validation, store
<1> USE TimeAssumption, ActorsAssumption
<1>1. CASE SetStatus(a)
  <2>1. PICK r \in Rows, on \in BOOLEAN : Present(r) /\ rows' = [rows EXCEPT ![r].enabled = on]
    BY <1>1 DEF SetStatus
  <2>2. rows[r] \in Row /\ rows \in [Rows -> Row \cup {NoRow}]
    BY <2>1 DEF Present, IInv, TypeOK
  <2>3. /\ rows' \in [Rows -> Row \cup {NoRow}]
        /\ \A s \in Rows : Present(s)' => Present(s) /\ rows'[s].token = rows[s].token
                                                      /\ rows'[s].expire = rows[s].expire
    BY <2>1, <2>2 DEF Present, Row
  <2>4. \A s \in Rows : Present(s)' =>
           rows'[s].token <= created /\ rows'[s].expire = expireOf[rows'[s].token]
    BY <2>3 DEF IInv, OnlyCreated, Observed
  <2>5. /\ created \in created .. MaxToken /\ deleted \in BOOLEAN
        /\ found \in [Admins -> Rows \cup {NoRow}] /\ expireOf \in [Tokens -> Nat]
    BY DEF IInv, TypeOK
  <2> QED BY <1>1, <2>3, <2>4, <2>5, ChangeStep DEF SetStatus
<1>2. CASE FindRow(a)
  <2>1. PICK r \in Rows \cup {NoRow} : found' = [found EXCEPT ![a] = r]
    BY <1>2 DEF FindRow
  <2>2. /\ pc' = [pc EXCEPT ![a] = "save"] /\ pc[a] = "idle" /\ found' = [found EXCEPT ![a] = r]
        /\ UNCHANGED <<now, rows, created, deleted, expireOf, lastEnabled, cache, lastSweep, token,
                       start, expiresAt, raced>>
    BY <1>2, <2>1 DEF FindRow
  <2>3. (\A v \in Validators : pc'[v] = pc[v]) /\ (\A b \in Admins : pc[b] = "invalidate" => pc'[b] = pc[b])
    BY <2>2 DEF IInv, TypeOK
  <2>4. TypeOK'
    BY <2>2 DEF IInv, TypeOK, Entries
  <2>5. OnlyCreated' /\ UnderWay' /\ Observed'
    BY <2>2, <2>3, SameRows DEF IInv, OnlyCreated, UnderWay, Observed
  <2>6. CacheWithin' /\ PendingWithin' /\ StaleBound' /\ ExpiryRespected'
    BY <2>2, <2>3 DEF IInv, CacheWithin, PendingWithin, Within, StaleBound, ExpiryRespected
  <2>7. RevocationReachesCache'
    BY <2>2, <2>3, SameRows DEF IInv, RevocationReachesCache
  <2> QED BY <2>4, <2>5, <2>6, <2>7 DEF IInv
<1>3. CASE SaveToken(a)
  <2>1. PICK r \in Rows, e \in Expiries :
          /\ rows' = [rows EXCEPT ![r] = [token |-> created + 1, enabled |-> TRUE, expire |-> e]]
          /\ expireOf' = [expireOf EXCEPT ![created + 1] = e]
    BY <1>3 DEF SaveToken
  <2>2. created \in Nat /\ created + 1 \in Tokens /\ e \in Nat /\ created' = created + 1
    BY <1>3 DEF SaveToken, IInv, TypeOK, Tokens
  <2>3. /\ rows' \in [Rows -> Row \cup {NoRow}] /\ expireOf' \in [Tokens -> Nat]
        /\ created' \in created .. MaxToken
        /\ \A t \in Tokens : t <= created => expireOf'[t] = expireOf[t]
    BY <2>1, <2>2 DEF IInv, TypeOK, Row, Tokens
  <2>4. ASSUME NEW s \in Rows, Present(s)'
        PROVE  rows'[s].token <= created' /\ rows'[s].expire = expireOf'[rows'[s].token]
    <3>1. CASE s = r
      BY <3>1, <2>1, <2>2 DEF IInv, TypeOK
    <3>2. CASE s # r
      <4>1. rows'[s] = rows[s] /\ Present(s)
        BY <3>2, <2>1, <2>4 DEF Present, IInv, TypeOK
      <4>2. rows[s].token \in Tokens
        BY <4>1 DEF Present, IInv, TypeOK, Row
      <4>3. rows[s].token <= created /\ rows[s].expire = expireOf[rows[s].token]
        BY <4>1 DEF IInv, OnlyCreated, Observed
      <4> QED BY <4>1, <4>2, <4>3, <2>2, <2>3 DEF Tokens
    <3> QED BY <3>1, <3>2
  <2>5. /\ found' \in [Admins -> Rows \cup {NoRow}] /\ deleted' \in BOOLEAN
        /\ pc' = [pc EXCEPT ![a] = "invalidate"] /\ now' = now /\ Observe
        /\ UNCHANGED <<cache, lastSweep, token, start, expiresAt, raced>>
    BY <1>3 DEF SaveToken, IInv, TypeOK
  <2> QED BY <2>3, <2>4, <2>5, ChangeStep
<1>4. CASE DeleteDevice(a)
  <2>1. /\ rows' \in [Rows -> Row \cup {NoRow}] /\ \A r \in Rows : ~Present(r)'
        /\ created' \in created .. MaxToken /\ deleted' \in BOOLEAN
        /\ found' \in [Admins -> Rows \cup {NoRow}] /\ expireOf' \in [Tokens -> Nat]
        /\ expireOf' = expireOf
        /\ pc' = [pc EXCEPT ![a] = "invalidate"] /\ now' = now /\ Observe
        /\ UNCHANGED <<cache, lastSweep, token, start, expiresAt, raced>>
    BY <1>4 DEF DeleteDevice, IInv, TypeOK, Present
  <2> QED BY <2>1, ChangeStep
<1>5. CASE Invalidate(a)
  <2>1. /\ cache' = [t \in Tokens |-> 0] /\ raced' = {} /\ pc' = [pc EXCEPT ![a] = "idle"]
        /\ UNCHANGED <<now, rows, created, deleted, expireOf, lastEnabled, lastSweep, token, start,
                       expiresAt, found>>
    BY <1>5 DEF Invalidate
  <2>2. \A v \in Validators : pc'[v] = pc[v]
    BY <2>1 DEF IInv, TypeOK
  <2>3. Cardinality(Entries)' <= CacheMax
    BY <2>1, FewerEntries DEF IInv, TypeOK, Entries
  <2>4. TypeOK'
    BY <2>1, <2>3 DEF IInv, TypeOK
  <2>5. OnlyCreated' /\ UnderWay' /\ Observed'
    BY <2>1, <2>2, SameRows DEF IInv, OnlyCreated, UnderWay, Observed
  <2>6. CacheWithin' /\ PendingWithin' /\ StaleBound' /\ ExpiryRespected' /\ RevocationReachesCache'
    BY <2>1, <2>2 DEF IInv, CacheWithin, PendingWithin, Within, StaleBound, ExpiryRespected,
       RevocationReachesCache
  <2> QED BY <2>4, <2>5, <2>6 DEF IInv
<1> QED BY <1>1, <1>2, <1>3, <1>4, <1>5 DEF Administer

LEMMA NextIInv == IInv /\ [Next]_vars => IInv'
<1> SUFFICES ASSUME IInv, [Next]_vars PROVE IInv'
  OBVIOUS
<1>1. CASE UNCHANGED vars
  <2> USE <1>1 DEF IInv, vars, validation, store
  <2>1. TypeOK'
    BY DEF TypeOK, Entries
  <2>2. OnlyCreated' /\ UnderWay' /\ Observed' /\ RevocationReachesCache'
    BY SameRows DEF OnlyCreated, UnderWay, Observed, RevocationReachesCache
  <2>3. CacheWithin' /\ PendingWithin' /\ StaleBound' /\ ExpiryRespected'
    BY DEF CacheWithin, PendingWithin, Within, StaleBound, ExpiryRespected
  <2> QED BY <2>1, <2>2, <2>3
<1>2. CASE Next
  BY <1>2, TickStep, BeginStep, LookupStep, ReadRowStep, CacheValidationStep, AdministerStep
     DEF Next, Validate
<1> QED BY <1>1, <1>2

\* Every behaviour of the token cache keeps the invariant.
THEOREM Invariance == Spec => []IInv
BY InitIInv, NextIInv, PTL DEF Spec

\* Types, and the cache never holds more than CacheMax entries.
THEOREM TypeCorrect == Spec => []TypeOK
<1>1. IInv => TypeOK
  BY DEF IInv
<1> QED BY <1>1, Invariance, PTL

\* A disabled, replaced or deleted token is accepted for less than TTL.
THEOREM RevokedTokenBounded == Spec => []StaleBound
<1>1. IInv => StaleBound
  BY DEF IInv
<1> QED BY <1>1, Invariance, PTL

\* An expired token is never accepted.
THEOREM ExpiredTokenRefused == Spec => []ExpiryRespected
<1>1. IInv => ExpiryRespected
  BY DEF IInv
<1> QED BY <1>1, Invariance, PTL

\* A revocation clears the cache, unless a validation that overlaps it stores
\* what it had read.
THEOREM RevocationClears == Spec => []RevocationReachesCache
<1>1. IInv => RevocationReachesCache
  BY DEF IInv
<1> QED BY <1>1, Invariance, PTL
=============================================================================
