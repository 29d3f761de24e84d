------------------------------ MODULE ReadCache ------------------------------
(* The read path of internal/doldb: the read cache (cache.go), the cachedRead *)
(* protocol that fills it (pool.go) and the singleflight group it goes        *)
(* through, raced by the writes of internal/dolapi (client.go), by writes     *)
(* made outside this server, and by the clock.                                *)
(*                                                                            *)
(* The database is a version number: every change is one more version, and a  *)
(* load answers with the version its first statement saw, the oldest part of  *)
(* what it returns.                                                           *)
EXTENDS Integers, FiniteSets

CONSTANTS
  Keys,        \* cache keys: fetchKey, searchKey and the list keys
  Readers,     \* goroutines that call cachedRead
  Writers,     \* goroutines that call Client.Do with a method that writes
  TTL,         \* CACHE_TTL in ticks, 0 turns the cache off
  MaxEntries,  \* CACHE_MAX_ENTRIES, already raised to 1 by newReadCache
  MaxVersion,  \* bound: database versions
  MaxGen,      \* bound: invalidations
  MaxTime      \* bound: clock ticks

ASSUME ConstantsAssumption ==
  /\ Keys # {}
  /\ TTL \in Nat
  /\ MaxEntries \in Nat \ {0}
  /\ MaxVersion \in Nat
  /\ MaxGen \in Nat
  /\ MaxTime \in Nat

VARIABLES
  db,        \* the database's current version
  acked,     \* ghost: newest version of a write whose hook has run
  returned,  \* ghost: newest version of a write of this server whose call returned
  now,       \* time.Now() in ticks
  gen,       \* readCache.gen
  entries,   \* readCache.entries, a function on the cached keys
  flights,   \* singleflight.Group.m: key in flight -> the goroutine that leads it
  reader,    \* one record per goroutine in cachedRead
  writer     \* one record per goroutine in Client.Do

dbVars == <<db, acked, returned>>
cacheVars == <<gen, entries>>
vars == <<db, acked, returned, now, gen, entries, flights, reader, writer>>

Disabled == TTL = 0

-----------------------------------------------------------------------------
(* The cache. Every operator below runs with readCache.mu held, so it is one  *)
(* step of the action that calls it.                                          *)

Expired(k) == now > entries[k].expires

Keep(ks) == [k \in ks |-> entries[k]]

Oldest(ks) == {k \in ks : \A j \in ks : entries[k].expires <= entries[j].expires}

\* Mutant of Evict: only expired entries go, so a cache full of live ones grows.
BugEvictExpiredOnly == {{k \in DOMAIN entries : ~Expired(k)}}

\* Mutant of Evict: whichever key map iteration yields first goes.
BugEvictAny == {DOMAIN entries \ {k} : k \in DOMAIN entries}

\* The key sets evict may leave: the expired entries go, and if that frees no
\* slot one entry closest to expiry goes (map order breaks a tie).
Evict ==
  LET live == {k \in DOMAIN entries : ~Expired(k)}
  IN  IF live # DOMAIN entries /\ Cardinality(live) < MaxEntries
      THEN {live}
      ELSE {live \ {k} : k \in Oldest(live)}

\* The key sets store may keep before it writes its own key: a full cache
\* evicts even when the key to store is already there.
Kept == IF Cardinality(DOMAIN entries) >= MaxEntries THEN Evict
        ELSE {DOMAIN entries}

Store(k, e) ==
  \E ks \in Kept :
    entries' = [j \in ks \cup {k} |-> IF j = k THEN e ELSE entries[j]]

\* Mutant of Generation: the generation before the current one.
BugGenerationBefore == IF Disabled THEN 0 ELSE gen - 1

Generation == IF Disabled THEN 0 ELSE gen

\* Mutant of Invalidate: the entries go, the generation stays.
BugInvalidateEntriesOnly ==
  /\ entries' = [k \in {} |-> k]
  /\ UNCHANGED gen

\* Mutant of Invalidate: the generation moves, the entries stay.
BugInvalidateGenOnly ==
  /\ gen' = gen + 1
  /\ UNCHANGED entries

Invalidate ==
  /\ gen' = gen + 1
  /\ entries' = [k \in {} |-> k]

-----------------------------------------------------------------------------
(* Readers: cachedRead, one action per step another goroutine can come        *)
(* between. since and own are ghosts: what was acknowledged when the read     *)
(* began, and whether the answer comes from a flight its own reader led.      *)

ReaderPCs == {"idle", "missed", "call", "load", "loaded", "wait", "put", "done", "failed"}

AnyKey == CHOOSE k \in Keys : TRUE

Idle ==
  [pc |-> "idle", key |-> AnyKey, gen |-> 0, val |-> 0, since |-> 0, own |-> FALSE]

CachedLive(k) == ~Disabled /\ k \in DOMAIN entries /\ ~Expired(k)

\* get finds a live entry: its value is the answer.
Hit(r, k) ==
  /\ reader[r].pc = "idle"
  /\ CachedLive(k)
  /\ reader' = [reader EXCEPT ![r] =
       [pc |-> "done", key |-> k, gen |-> 0, val |-> entries[k].val,
        since |-> acked, own |-> entries[k].own]]
  /\ UNCHANGED <<dbVars, now, cacheVars, flights, writer>>

\* get finds nothing it may serve; an expired entry is deleted.
Miss(r, k) ==
  /\ reader[r].pc = "idle"
  /\ ~CachedLive(k)
  /\ reader' = [reader EXCEPT ![r] =
       [pc |-> "missed", key |-> k, gen |-> 0, val |-> 0, since |-> acked, own |-> FALSE]]
  /\ entries' = Keep(DOMAIN entries \ {k})
  /\ UNCHANGED <<dbVars, now, gen, flights, writer>>

\* gen := cache.generation(), before the load.
ReadGeneration(r) ==
  /\ reader[r].pc = "missed"
  /\ reader' = [reader EXCEPT ![r].pc = "call", ![r].gen = Generation]
  /\ UNCHANGED <<dbVars, now, cacheVars, flights, writer>>

\* Mutant of Lead: load is called without looking for a flight of the key.
BugLeadAlways(r) ==
  /\ reader[r].pc = "call"
  /\ flights' = [k \in DOMAIN flights \cup {reader[r].key} |->
                   IF k = reader[r].key THEN r ELSE flights[k]]
  /\ reader' = [reader EXCEPT ![r].pc = "load", ![r].own = TRUE]
  /\ UNCHANGED <<dbVars, now, cacheVars, writer>>

\* group.Do: the first caller of a key leads its flight, the others wait for it.
Lead(r) ==
  /\ reader[r].pc = "call"
  /\ reader[r].key \notin DOMAIN flights
  /\ flights' = [k \in DOMAIN flights \cup {reader[r].key} |->
                   IF k = reader[r].key THEN r ELSE flights[k]]
  /\ reader' = [reader EXCEPT ![r].pc = "load", ![r].own = TRUE]
  /\ UNCHANGED <<dbVars, now, cacheVars, writer>>

Join(r) ==
  /\ reader[r].pc = "call"
  /\ reader[r].key \in DOMAIN flights
  /\ reader' = [reader EXCEPT ![r].pc = "wait"]
  /\ UNCHANGED <<dbVars, now, cacheVars, flights, writer>>

\* The first statement of load fixes the oldest version in the answer.
LoadQuery(r) ==
  /\ reader[r].pc = "load"
  /\ reader' = [reader EXCEPT ![r].pc = "loaded", ![r].val = db]
  /\ UNCHANGED <<dbVars, now, cacheVars, flights, writer>>

\* The leader r and the goroutines that share its flight.
Sharing(r) ==
  {r} \cup {q \in Readers : reader[q].pc = "wait" /\ reader[q].key = reader[r].key}

Land(r) == flights' = [k \in DOMAIN flights \ {reader[r].key} |-> flights[k]]

\* load returns: the flight ends and every caller has its value.
LoadReturn(r) ==
  /\ reader[r].pc = "loaded"
  /\ Land(r)
  /\ reader' = [q \in Readers |->
       IF q \in Sharing(r)
       THEN [reader[q] EXCEPT !.pc = "put", !.val = reader[r].val]
       ELSE reader[q]]
  /\ UNCHANGED <<dbVars, now, cacheVars, writer>>

\* Mutant of LoadFail: the flight ends and only its leader is told.
BugLoadFailAlone(r) ==
  /\ reader[r].pc \in {"load", "loaded"}
  /\ Land(r)
  /\ reader' = [reader EXCEPT ![r].pc = "failed"]
  /\ UNCHANGED <<dbVars, now, cacheVars, writer>>

\* load fails (a database error, the leader's deadline or cancellation): the
\* flight ends and every caller returns the error.
LoadFail(r) ==
  /\ reader[r].pc \in {"load", "loaded"}
  /\ Land(r)
  /\ reader' = [q \in Readers |->
       IF q \in Sharing(r) THEN [reader[q] EXCEPT !.pc = "failed"] ELSE reader[q]]
  /\ UNCHANGED <<dbVars, now, cacheVars, writer>>

\* Mutant of PutIfCurrent: the generation is not compared.
BugPutAlways(r) ==
  /\ reader[r].pc = "put"
  /\ IF ~Disabled
     THEN Store(reader[r].key, [val |-> reader[r].val, expires |-> now + TTL,
                                own |-> reader[r].own])
     ELSE UNCHANGED entries
  /\ reader' = [reader EXCEPT ![r].pc = "done"]
  /\ UNCHANGED <<dbVars, now, gen, flights, writer>>

\* putIfCurrent: stored only if no invalidation came since ReadGeneration.
PutIfCurrent(r) ==
  /\ reader[r].pc = "put"
  /\ IF ~Disabled /\ reader[r].gen = gen
     THEN Store(reader[r].key, [val |-> reader[r].val, expires |-> now + TTL,
                                own |-> reader[r].own])
     ELSE UNCHANGED entries
  /\ reader' = [reader EXCEPT ![r].pc = "done"]
  /\ UNCHANGED <<dbVars, now, gen, flights, writer>>

\* The answer, or the error, goes back to the caller.
Return(r) ==
  /\ reader[r].pc \in {"done", "failed"}
  /\ reader' = [reader EXCEPT ![r] = Idle]
  /\ UNCHANGED <<dbVars, now, cacheVars, flights, writer>>

ReadStep(r) ==
  \/ ReadGeneration(r)
  \/ Lead(r)
  \/ Join(r)
  \/ LoadQuery(r)
  \/ LoadReturn(r)
  \/ LoadFail(r)
  \/ PutIfCurrent(r)
  \/ Return(r)

-----------------------------------------------------------------------------
(* Writers: Client.Do seen from the cache. RestClient.tla has the attempts.   *)

WriterPCs == {"idle", "sent", "landed"}

Later(v, w) == IF v >= w THEN v ELSE w

WritesInFlight == {w \in Writers : writer[w].pc # "idle"}

WriteSend(w) ==
  /\ writer[w].pc = "idle"
  /\ gen + Cardinality(WritesInFlight) < MaxGen
  /\ writer' = [writer EXCEPT ![w] = [pc |-> "sent", ver |-> 0]]
  /\ UNCHANGED <<dbVars, now, cacheVars, flights, reader>>

\* Dolibarr handles the request and commits a change.
WriteLand(w) ==
  /\ writer[w].pc = "sent"
  /\ db < MaxVersion
  /\ db' = db + 1
  /\ writer' = [writer EXCEPT ![w] = [pc |-> "landed", ver |-> db + 1]]
  /\ UNCHANGED <<acked, returned, now, cacheVars, flights, reader>>

\* A status below 400 arrives: the hook empties the cache, then Do returns. A
\* request that changed nothing (a preview sent as a POST) runs the hook too.
WriteOk(w) ==
  /\ writer[w].pc \in {"sent", "landed"}
  /\ Invalidate
  /\ acked' = Later(acked, writer[w].ver)
  /\ returned' = Later(returned, writer[w].ver)
  /\ writer' = [writer EXCEPT ![w] = [pc |-> "idle", ver |-> 0]]
  /\ UNCHANGED <<db, now, flights, reader>>

\* Do returns an error: a status of 400 or more, a broken connection, a timeout
\* or a cancelled caller. It runs no hook, whether or not the change was made.
WriteError(w) ==
  /\ writer[w].pc \in {"sent", "landed"}
  /\ returned' = Later(returned, writer[w].ver)
  /\ writer' = [writer EXCEPT ![w] = [pc |-> "idle", ver |-> 0]]
  /\ UNCHANGED <<db, acked, now, cacheVars, flights, reader>>

-----------------------------------------------------------------------------
(* The environment: someone else changes the database, and time passes.       *)

OutsideWrite ==
  /\ db < MaxVersion
  /\ db' = db + 1
  /\ UNCHANGED <<acked, returned, now, cacheVars, flights, reader, writer>>

Tick ==
  /\ now < MaxTime
  /\ now' = now + 1
  /\ UNCHANGED <<dbVars, cacheVars, flights, reader, writer>>

Init ==
  /\ db = 0 /\ acked = 0 /\ returned = 0 /\ now = 0
  /\ gen = 0
  /\ entries = [k \in {} |-> k]
  /\ flights = [k \in {} |-> k]
  /\ reader = [r \in Readers |-> Idle]
  /\ writer = [w \in Writers |-> [pc |-> "idle", ver |-> 0]]

Next ==
  \/ \E r \in Readers : ReadStep(r) \/ \E k \in Keys : Hit(r, k) \/ Miss(r, k)
  \/ \E w \in Writers : WriteSend(w) \/ WriteLand(w) \/ WriteOk(w) \/ WriteError(w)
  \/ OutsideWrite
  \/ Tick

Spec == Init /\ [][Next]_vars

\* A goroutine that has entered cachedRead keeps running: the load ends by the
\* query deadline at the latest, every other step is local.
FairSpec == Spec /\ \A r \in Readers : WF_vars(ReadStep(r))

-----------------------------------------------------------------------------
(* Properties.                                                                *)

Entry == [val : Nat, expires : Nat, own : BOOLEAN]
ReaderRecord == [pc : ReaderPCs, key : Keys, gen : Nat, val : Nat, since : Nat,
                 own : BOOLEAN]
WriterRecord == [pc : WriterPCs, ver : Nat]

\* Every variable has its type; the maps are functions on sets of keys.
TypeOK ==
  /\ db \in Nat /\ acked \in Nat /\ returned \in Nat /\ now \in Nat /\ gen \in Nat
  /\ DOMAIN entries \subseteq Keys
  /\ \A k \in DOMAIN entries : entries[k] \in Entry
  /\ DOMAIN flights \subseteq Keys
  /\ \A k \in DOMAIN flights : flights[k] \in Readers
  /\ reader \in [Readers -> ReaderRecord]
  /\ writer \in [Writers -> WriterRecord]

\* An entry published by the goroutine that loaded it is never older than the
\* last acknowledged write (cache.go:31-33, pool.go:171-173): gen taken before
\* the load and compared at the store keeps a pre-write snapshot out.
LedEntriesFresh == \A k \in DOMAIN entries : entries[k].own => entries[k].val >= acked

\* A read that began after a write was acknowledged sees that write, if its
\* answer comes, directly or through the cache, from a load its own goroutine
\* led: the invalidation reaches the cache before the write's caller can issue
\* its next read (client.go:152-153).
ReadYourWrites ==
  \A r \in Readers :
    reader[r].pc = "done" /\ reader[r].own => reader[r].val >= reader[r].since

\* The cache never holds more entries than CACHE_MAX_ENTRIES, whatever mix of
\* stores, overwrites, expiries and evictions led there (cache.go:111-144).
WithinCapacity == Cardinality(DOMAIN entries) <= MaxEntries

\* Identical concurrent reads are one round trip (README "The read cache"): two
\* goroutines never run the load of the same key at the same time, and who
\* waits waits for a flight that is still in the air.
OneFlightPerKey ==
  \A r \in Readers :
    /\ reader[r].pc \in {"load", "loaded"} =>
         \A q \in Readers \ {r} :
           reader[q].pc \in {"load", "loaded"} => reader[q].key # reader[r].key
    /\ reader[r].pc = "wait" => reader[r].key \in DOMAIN flights

\* Only an invalidation drops a live entry while an expired one holds a slot or
\* while another entry is closer to its expiry (cache.go:118-120).
ExpiredGoFirst ==
  [][gen' = gen =>
       \A k \in DOMAIN entries \ DOMAIN entries' :
         ~Expired(k) =>
           \A j \in DOMAIN entries' \cap DOMAIN entries :
             ~Expired(j) /\ (entries[j].expires >= entries[k].expires \/ entries'[j] # entries[j])
    ]_vars

\* Every call of cachedRead returns, with an answer or an error: no follower is
\* left behind by a flight that has ended.
EveryReadReturns ==
  \A r \in Readers : (reader[r].pc # "idle") ~> (reader[r].pc = "idle")

\* README.md:170, cache.go:18, .env.example:40: no cached answer is older than a
\* write whose hook has run, whichever caller stored it.
CacheNeverPredatesAck == \A k \in DOMAIN entries : entries[k].val >= acked

\* cache.go:16-18: no cached answer outlives a change this server made, once the
\* call that made it has returned.
CacheNeverOutlivesOwnChange == \A k \in DOMAIN entries : entries[k].val >= returned

-----------------------------------------------------------------------------
(* The strengthening that makes LedEntriesFresh, ReadYourWrites and           *)
(* OneFlightPerKey inductive; ReadCacheProofs.tla proves it.                  *)

\* flights and the readers' program counters tell the same story, and only a
\* leader owns its answer before it has one.
FlightsLed ==
  /\ \A k \in DOMAIN flights :
       /\ reader[flights[k]].pc \in {"load", "loaded"}
       /\ reader[flights[k]].key = k
  /\ \A r \in Readers :
       /\ reader[r].pc \in {"load", "loaded"} =>
            /\ reader[r].own
            /\ reader[r].key \in DOMAIN flights
            /\ flights[reader[r].key] = r
       /\ reader[r].pc = "wait" => reader[r].key \in DOMAIN flights
       /\ reader[r].pc \in {"missed", "call", "wait"} => ~reader[r].own

\* What has been acknowledged has landed, and what a reader remembers of the
\* past is no newer than the present.
PastBehind ==
  /\ acked <= db
  /\ \A w \in Writers : writer[w].ver <= db
  /\ \A r \in Readers : reader[r].gen <= gen /\ reader[r].since <= acked

\* A leader's snapshot that putIfCurrent would still accept covers every
\* acknowledged write, and it covers those the read began after in any case.
SnapshotsFresh ==
  \A r \in Readers :
    reader[r].own /\ reader[r].pc \in {"loaded", "put", "done"} =>
      /\ reader[r].pc # "done" /\ reader[r].gen = gen => reader[r].val >= acked
      /\ reader[r].val >= reader[r].since

\* The inductive invariant behind the freshness theorems (cache.go, pool.go).
Inv ==
  /\ TypeOK
  /\ FlightsLed
  /\ PastBehind
  /\ SnapshotsFresh
  /\ LedEntriesFresh
=============================================================================
