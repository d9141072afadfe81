---------------------------- MODULE DeviceTokens ----------------------------
(***************************************************************************)
(* Device tokens and the cache of their validations                        *)
(* (services/device_token_service.go), for one device.                     *)
(*                                                                         *)
(* Every hello, heartbeat and registration validates the device's token: a *)
(* hit in the cache accepts it, a miss reads the token's row and caches    *)
(* the result for at most TTL.  An administrator enables, disables,        *)
(* replaces or deletes the rows and clears the cache afterwards, in a      *)
(* step of its own: a validation may read a row before the change and      *)
(* cache what it read after the clearing.                                  *)
(*                                                                         *)
(* Abstractions.  Tokens are numbers in the order of their creation (the   *)
(* code draws them at random).  Names and last_used_at are left out; the   *)
(* update of last_used_at can fail, which refuses the token.               *)
(***************************************************************************)
EXTENDS Naturals, FiniteSets

CONSTANTS
  Validators,  \* goroutines calling Validate
  Admins,      \* goroutines calling SetStatus, CreateToken, Rotate or Delete
  Rows,        \* rows of device_tokens the device may have
  MaxToken,    \* bound: tokens created
  MaxTime,     \* bound: the clock
  TTL,         \* deviceTokenValidationCacheTTL
  CacheMax,    \* deviceTokenValidationCacheMax
  Expiries,    \* expire times given to tokens; 0: never
  NoRow

Tokens == 1 .. MaxToken
NoToken == 0
Time == 0 .. MaxTime

ASSUME TimeAssumption ==
  /\ MaxTime \in Nat /\ MaxToken \in Nat
  /\ TTL \in Nat \ {0} /\ CacheMax \in Nat \ {0}
  /\ Expiries \subseteq Nat

ASSUME ActorsAssumption == Validators \cap Admins = {}

Row == [token: Tokens, enabled: BOOLEAN, expire: Expiries]
ASSUME NoRowAssumption == NoRow \notin Row /\ NoRow \notin Rows

VARIABLES
  now,         \* the clock
  rows,        \* device_tokens
  created,     \* tokens created so far: 1 .. created
  deleted,     \* the device has been deleted
  cache,       \* token -> time its validation expires; 0: not cached
  lastSweep,   \* when the cache was last swept
  pc,          \* where each goroutine is
  token,       \* the token a validator was given
  start,       \* the time a validator read at its start
  expiresAt,   \* what a validator is about to cache
  found,       \* the row CreateToken found, or NoRow
  expireOf,    \* auxiliary: the expire time each token was created with
  lastEnabled, \* auxiliary: the last time each token had an enabled row
  raced        \* auxiliary: tokens cached after they stopped being enabled

vars == <<now, rows, created, deleted, cache, lastSweep, pc, token, start,
          expiresAt, found, expireOf, lastEnabled, raced>>
validation == <<token, start, expiresAt>>
store == <<rows, created, deleted, expireOf, lastEnabled>>

Present(r) == rows[r] # NoRow
Entries == {t \in Tokens : cache[t] # 0}
Enabled(t) == \E r \in Rows : Present(r) /\ rows[r].token = t /\ rows[r].enabled

TypeOK ==
  /\ now \in Time
  /\ rows \in [Rows -> Row \cup {NoRow}]
  /\ created \in 0 .. MaxToken
  /\ deleted \in BOOLEAN
  /\ cache \in [Tokens -> Nat]
  /\ Cardinality(Entries) <= CacheMax
  /\ lastSweep \in Time
  /\ pc \in [Validators \cup Admins ->
              {"idle", "lookup", "read", "cache", "accepted", "save", "invalidate"}]
  /\ token \in [Validators -> Tokens \cup {NoToken}]
  /\ start \in [Validators -> Time]
  /\ expiresAt \in [Validators -> Nat]
  /\ found \in [Admins -> Rows \cup {NoRow}]
  /\ expireOf \in [Tokens -> Nat]
  /\ lastEnabled \in [Tokens -> Time]
  /\ raced \subseteq Tokens

Init ==
  /\ now = 0
  /\ rows = [r \in Rows |-> NoRow]
  /\ created = 0
  /\ deleted = FALSE
  /\ cache = [t \in Tokens |-> 0]
  /\ lastSweep = 0
  /\ pc = [a \in Validators \cup Admins |-> "idle"]
  /\ token = [v \in Validators |-> NoToken]
  /\ start = [v \in Validators |-> 0]
  /\ expiresAt = [v \in Validators |-> 0]
  /\ found = [a \in Admins |-> NoRow]
  /\ expireOf = [t \in Tokens |-> 0]
  /\ lastEnabled = [t \in Tokens |-> 0]
  /\ raced = {}

\* The rows change, or time passes: remember which tokens are enabled now.
Observe == lastEnabled' = [t \in Tokens |-> IF Enabled(t)' THEN now' ELSE lastEnabled[t]]

Tick ==
  /\ now < MaxTime
  /\ now' = now + 1
  /\ rows' = rows /\ Observe
  /\ UNCHANGED <<created, deleted, cache, lastSweep, pc, validation, found, expireOf, raced>>

-----------------------------------------------------------------------------
(* Validate.                                                               *)

\* A request arrives with any token; the clock is read once.
Begin(v) ==
  /\ pc[v] \in {"idle", "accepted"}
  /\ \E t \in Tokens : token' = [token EXCEPT ![v] = t]
  /\ start' = [start EXCEPT ![v] = now]
  /\ pc' = [pc EXCEPT ![v] = "lookup"]
  /\ UNCHANGED <<now, store, cache, lastSweep, expiresAt, found, raced>>

\* Seeded fault: a hit renews the entry.
LookupRenewing(v) ==
  LET hit == cache[token[v]] > start[v]
  IN /\ pc[v] = "lookup"
     /\ cache' = [cache EXCEPT ![token[v]] = IF hit THEN start[v] + TTL ELSE 0]
     /\ pc' = [pc EXCEPT ![v] = IF hit THEN "accepted" ELSE "read"]
     /\ UNCHANGED <<now, store, lastSweep, validation, found, raced>>

\* tokenValidationCached: accept on a hit; drop an entry that has expired.
Lookup(v) ==
  LET hit == cache[token[v]] > start[v]
  IN /\ pc[v] = "lookup"
     /\ cache' = IF hit THEN cache ELSE [cache EXCEPT ![token[v]] = 0]
     /\ pc' = [pc EXCEPT ![v] = IF hit THEN "accepted" ELSE "read"]
     /\ UNCHANGED <<now, store, lastSweep, validation, found, raced>>

\* The row as the query asks for it.
Acceptable(r, v) ==
  /\ Present(r) /\ rows[r].token = token[v] /\ rows[r].enabled
  /\ rows[r].expire = 0 \/ rows[r].expire > start[v]

CacheUntil(r, v) ==
  LET limit == start[v] + TTL
  IN IF rows[r].expire > 0 /\ rows[r].expire < limit THEN rows[r].expire ELSE limit

Refuse(v) ==
  /\ pc' = [pc EXCEPT ![v] = "idle"]
  /\ token' = [token EXCEPT ![v] = NoToken]
  /\ start' = [start EXCEPT ![v] = 0]
  /\ UNCHANGED expiresAt

ReadRow(v) ==
  /\ pc[v] = "read"
  /\ \/ \E r \in Rows :
          /\ Acceptable(r, v)
          /\ expiresAt' = [expiresAt EXCEPT ![v] = CacheUntil(r, v)]
          /\ pc' = [pc EXCEPT ![v] = "cache"]
          /\ UNCHANGED <<token, start>>
     \/ \* no such row, or a database error, or last_used_at not updated
        Refuse(v)
  /\ UNCHANGED <<now, store, cache, lastSweep, found, raced>>

\* How many entries must go before one more fits.
Excess(kept) == IF Cardinality(kept) >= CacheMax THEN Cardinality(kept) + 1 - CacheMax ELSE 0

\* cacheTokenValidation: sweep when it is due or the cache is full, evict any
\* entries while it is still full, insert.
CacheValidation(v) ==
  LET sweep == now >= lastSweep + TTL \/ Cardinality(Entries) >= CacheMax
      kept == IF sweep THEN {t \in Entries : cache[t] > now} ELSE Entries
  IN /\ pc[v] = "cache"
     /\ lastSweep' = IF sweep THEN now ELSE lastSweep
     /\ \E evicted \in SUBSET kept :
          /\ Cardinality(evicted) = Excess(kept)
          /\ cache' = [t \in Tokens |->
                        IF t = token[v] THEN expiresAt[v]
                        ELSE IF t \in kept \ evicted THEN cache[t] ELSE 0]
     /\ raced' = IF Enabled(token[v]) THEN raced ELSE raced \cup {token[v]}
     /\ expiresAt' = [expiresAt EXCEPT ![v] = 0]
     /\ pc' = [pc EXCEPT ![v] = "accepted"]
     /\ UNCHANGED <<now, store, token, start, found>>

-----------------------------------------------------------------------------
(* Administration: a database statement, then the clearing of the cache.   *)

\* SetStatus, Enable, Disable.
SetStatus(a) ==
  /\ pc[a] = "idle"
  /\ \E r \in Rows, on \in BOOLEAN :
       /\ Present(r)
       /\ rows' = [rows EXCEPT ![r].enabled = on]
  /\ pc' = [pc EXCEPT ![a] = "invalidate"]
  /\ now' = now /\ Observe
  /\ UNCHANGED <<created, deleted, cache, lastSweep, validation, found, expireOf, raced>>

\* CreateToken and Rotate: find the device's row, if it has one ...
FindRow(a) ==
  /\ pc[a] = "idle" /\ ~deleted /\ created < MaxToken
  /\ \E r \in Rows \cup {NoRow} :
       /\ IF \A s \in Rows : ~Present(s) THEN r = NoRow ELSE r # NoRow /\ Present(r)
       /\ found' = [found EXCEPT ![a] = r]
  /\ pc' = [pc EXCEPT ![a] = "save"]
  /\ UNCHANGED <<now, store, cache, lastSweep, validation, raced>>

\* ... and save it with a new token: an update, or an insert when there was
\* none (or when it has been deleted since).
SaveToken(a) ==
  /\ pc[a] = "save" /\ created < MaxToken
  /\ \E r \in Rows, e \in Expiries :
       /\ IF found[a] = NoRow THEN ~Present(r) ELSE r = found[a]
       /\ rows' = [rows EXCEPT ![r] = [token |-> created + 1, enabled |-> TRUE, expire |-> e]]
       /\ expireOf' = [expireOf EXCEPT ![created + 1] = e]
  /\ created' = created + 1
  /\ found' = [found EXCEPT ![a] = NoRow]
  /\ pc' = [pc EXCEPT ![a] = "invalidate"]
  /\ now' = now /\ Observe
  /\ UNCHANGED <<deleted, cache, lastSweep, validation, raced>>

\* DeviceService.Delete: the rows go with the device.
DeleteDevice(a) ==
  /\ pc[a] = "idle" /\ ~deleted
  /\ deleted' = TRUE
  /\ rows' = [r \in Rows |-> NoRow]
  /\ pc' = [pc EXCEPT ![a] = "invalidate"]
  /\ now' = now /\ Observe
  /\ UNCHANGED <<created, cache, lastSweep, validation, found, expireOf, raced>>

\* invalidateDeviceTokenValidationCache.
Invalidate(a) ==
  /\ pc[a] = "invalidate"
  /\ cache' = [t \in Tokens |-> 0]
  /\ raced' = {}
  /\ pc' = [pc EXCEPT ![a] = "idle"]
  /\ UNCHANGED <<now, store, lastSweep, validation, found>>

-----------------------------------------------------------------------------
Validate(v) == Begin(v) \/ Lookup(v) \/ ReadRow(v) \/ CacheValidation(v)

Administer(a) ==
  SetStatus(a) \/ FindRow(a) \/ SaveToken(a) \/ DeleteDevice(a) \/ Invalidate(a)

Next ==
  \/ Tick
  \/ \E v \in Validators : Validate(v)
  \/ \E a \in Admins : Administer(a)

Spec == Init /\ [][Next]_vars

-----------------------------------------------------------------------------
(* Properties.                                                             *)

\* A token that has been disabled, replaced or deleted is accepted for less
\* than TTL after that, however a validation and the clearing of the cache
\* interleave.
StaleBound ==
  \A v \in Validators :
    pc[v] = "accepted" => start[v] < lastEnabled[token[v]] + TTL

\* A token is never accepted once its expire time has come, from the cache or
\* from its row.
ExpiryRespected ==
  \A v \in Validators :
    pc[v] = "accepted" /\ expireOf[token[v]] # 0 => start[v] < expireOf[token[v]]

\* Clearing the cache works when nothing races: a token that is not enabled is
\* still cached only while the change that disabled it has its clearing to do,
\* or because a validation that had read the row before the change cached it
\* afterwards.
RevocationReachesCache ==
  \A t \in Tokens :
    cache[t] # 0 /\ ~Enabled(t) =>
      \/ \E a \in Admins : pc[a] = "invalidate"
      \/ t \in raced
=============================================================================
