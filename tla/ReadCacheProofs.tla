--------------------------- MODULE ReadCacheProofs ---------------------------
(* What ReadCache guarantees for every set of keys, readers and writers, every *)
(* TTL and every bound.                                                        *)
EXTENDS ReadCache, FiniteSetTheorems, TLAPS

LEMMA AnyKeyInKeys == AnyKey \in Keys
  BY ConstantsAssumption DEF AnyKey

\* The empty map: what newReadCache and invalidate leave.
LEMMA EmptyMap == DOMAIN [k \in {} |-> k] = {}
  OBVIOUS

\* Whatever evict drops, store keeps only keys that were cached.
LEMMA KeptIsSubset == \A ks \in Kept : ks \subseteq DOMAIN entries
  BY DEF Kept, Evict, Oldest

\* store leaves the stored entry under its key and every other entry as it was.
LEMMA StoreEffect ==
  ASSUME NEW k \in Keys, NEW e, Store(k, e)
  PROVE  /\ DOMAIN entries' \subseteq DOMAIN entries \cup {k}
         /\ k \in DOMAIN entries'
         /\ \A j \in DOMAIN entries' : entries'[j] = IF j = k THEN e ELSE entries[j]
  BY KeptIsSubset DEF Store

LEMMA InitInv == Init => Inv
  <1> SUFFICES ASSUME Init PROVE Inv
    OBVIOUS
  <1>1. TypeOK
    BY AnyKeyInKeys, EmptyMap DEF Init, TypeOK, Idle, ReaderRecord, ReaderPCs, WriterRecord, WriterPCs
  <1>2. FlightsLed
    BY EmptyMap DEF Init, FlightsLed, Idle
  <1>3. PastBehind
    BY DEF Init, PastBehind, Idle
  <1>4. SnapshotsFresh
    BY DEF Init, SnapshotsFresh, Idle
  <1>5. LedEntriesFresh
    BY EmptyMap DEF Init, LedEntriesFresh
  <1> QED BY <1>1, <1>2, <1>3, <1>4, <1>5 DEF Inv


-----------------------------------------------------------------------------
(* Readers. A step of r changes r's record and leaves the other records, so   *)
(* every lemma names the new record first and argues from its fields.         *)

\* What every step of one reader leaves alone.
OthersKept(r) == \A q \in Readers : q # r => reader'[q] = reader[q]

\* A hit on an own entry is as fresh as that entry.
LEMMA HitInv ==
  ASSUME Inv, NEW r \in Readers, NEW k \in Keys, Hit(r, k)
  PROVE  Inv'
  <1>1. /\ UNCHANGED <<db, acked, returned, now, gen, writer, flights, entries>>
       /\ k \in DOMAIN entries
       /\ reader[r].pc = "idle" /\ reader'[r].pc = "done"
       /\ reader'[r].gen = 0 /\ reader'[r].since = acked
       /\ reader'[r].val = entries[k].val /\ reader'[r].own = entries[k].own
    BY DEF Inv, TypeOK, ReaderRecord, Hit, CachedLive, dbVars, cacheVars
  <1>2. reader' \in [Readers -> ReaderRecord] /\ OthersKept(r)
    BY DEF Inv, TypeOK, ReaderRecord, ReaderPCs, Entry, OthersKept, Hit, CachedLive, dbVars, cacheVars
  <1>3. TypeOK'
    BY <1>1, <1>2 DEF Inv, TypeOK, ReaderRecord
  <1>4. FlightsLed'
    BY <1>1, <1>2 DEF Inv, TypeOK, ReaderRecord, FlightsLed, OthersKept
  <1>5. PastBehind'
    BY <1>1, <1>2 DEF Inv, TypeOK, ReaderRecord, PastBehind, OthersKept
  <1>6. SnapshotsFresh'
    BY <1>1, <1>2 DEF Inv, TypeOK, ReaderRecord, FlightsLed, PastBehind, SnapshotsFresh, LedEntriesFresh, Entry, OthersKept
  <1>7. LedEntriesFresh'
    BY <1>1, <1>2 DEF Inv, TypeOK, LedEntriesFresh
  <1> QED BY <1>3, <1>4, <1>5, <1>6, <1>7 DEF Inv

\* A miss starts a read that remembers what is acknowledged now.
LEMMA MissInv ==
  ASSUME Inv, NEW r \in Readers, NEW k \in Keys, Miss(r, k)
  PROVE  Inv'
  <1>1. /\ UNCHANGED <<db, acked, returned, now, gen, writer, flights>>
       /\ reader[r].pc = "idle" /\ reader'[r].pc = "missed"
       /\ reader'[r].gen = 0 /\ reader'[r].since = acked /\ reader'[r].own = FALSE
       /\ DOMAIN entries' \subseteq DOMAIN entries
       /\ \A j \in DOMAIN entries' : entries'[j] = entries[j]
    BY DEF Inv, TypeOK, ReaderRecord, Miss, Keep, dbVars
  <1>2. reader' \in [Readers -> ReaderRecord] /\ OthersKept(r)
    BY DEF Inv, TypeOK, ReaderRecord, ReaderPCs, OthersKept, Miss, Keep, dbVars
  <1>3. TypeOK'
    BY <1>1, <1>2 DEF Inv, TypeOK, ReaderRecord
  <1>4. FlightsLed'
    BY <1>1, <1>2 DEF Inv, TypeOK, ReaderRecord, FlightsLed, OthersKept
  <1>5. PastBehind'
    BY <1>1, <1>2 DEF Inv, TypeOK, ReaderRecord, PastBehind, OthersKept
  <1>6. SnapshotsFresh'
    BY <1>1, <1>2 DEF Inv, TypeOK, ReaderRecord, FlightsLed, PastBehind, SnapshotsFresh, LedEntriesFresh, Entry, OthersKept
  <1>7. LedEntriesFresh'
    BY <1>1, <1>2 DEF Inv, TypeOK, LedEntriesFresh
  <1> QED BY <1>3, <1>4, <1>5, <1>6, <1>7 DEF Inv

\* The generation a reader takes is at most the current one.
LEMMA ReadGenerationInv ==
  ASSUME Inv, NEW r \in Readers, ReadGeneration(r)
  PROVE  Inv'
  <1>1. /\ UNCHANGED <<db, acked, returned, now, gen, writer, flights, entries>>
       /\ reader[r].pc = "missed" /\ reader'[r].pc = "call"
       /\ reader'[r].key = reader[r].key /\ reader'[r].val = reader[r].val
       /\ reader'[r].since = reader[r].since /\ reader'[r].own = reader[r].own
       /\ reader'[r].gen \in Nat /\ reader'[r].gen <= gen
    BY DEF Inv, TypeOK, ReaderRecord, ReadGeneration, Generation, dbVars, cacheVars
  <1>2. reader' \in [Readers -> ReaderRecord] /\ OthersKept(r)
    <2> Generation \in Nat
      BY DEF Inv, TypeOK, Generation
    <2> QED BY DEF Inv, TypeOK, ReaderRecord, ReaderPCs, OthersKept, ReadGeneration
  <1>3. TypeOK'
    BY <1>1, <1>2 DEF Inv, TypeOK, ReaderRecord
  <1>4. FlightsLed'
    BY <1>1, <1>2 DEF Inv, TypeOK, ReaderRecord, FlightsLed, OthersKept
  <1>5. PastBehind'
    BY <1>1, <1>2 DEF Inv, TypeOK, ReaderRecord, PastBehind, OthersKept
  <1>6. SnapshotsFresh'
    BY <1>1, <1>2 DEF Inv, TypeOK, ReaderRecord, FlightsLed, PastBehind, SnapshotsFresh, LedEntriesFresh, Entry, OthersKept
  <1>7. LedEntriesFresh'
    BY <1>1, <1>2 DEF Inv, TypeOK, LedEntriesFresh
  <1> QED BY <1>3, <1>4, <1>5, <1>6, <1>7 DEF Inv

\* The key of a new flight was in no flight, so its leader is alone.
LEMMA LeadInv ==
  ASSUME Inv, NEW r \in Readers, Lead(r)
  PROVE  Inv'
  <1>1. /\ UNCHANGED <<db, acked, returned, now, gen, writer, entries>>
       /\ reader[r].pc = "call" /\ reader'[r].pc = "load" /\ reader'[r].own
       /\ reader'[r].key = reader[r].key /\ reader'[r].val = reader[r].val
       /\ reader'[r].since = reader[r].since /\ reader'[r].gen = reader[r].gen
       /\ reader[r].key \notin DOMAIN flights
       /\ DOMAIN flights' = DOMAIN flights \cup {reader[r].key}
       /\ \A j \in DOMAIN flights' : flights'[j] = IF j = reader[r].key THEN r ELSE flights[j]
    BY DEF Inv, TypeOK, ReaderRecord, Lead, dbVars, cacheVars
  <1>2. reader' \in [Readers -> ReaderRecord] /\ OthersKept(r)
    BY DEF Inv, TypeOK, ReaderRecord, ReaderPCs, OthersKept, Lead, dbVars, cacheVars
  <1>3. TypeOK'
    BY <1>1, <1>2 DEF Inv, TypeOK, ReaderRecord
  <1>4. FlightsLed'
    BY <1>1, <1>2 DEF Inv, TypeOK, ReaderRecord, FlightsLed, OthersKept
  <1>5. PastBehind'
    BY <1>1, <1>2 DEF Inv, TypeOK, ReaderRecord, PastBehind, OthersKept
  <1>6. SnapshotsFresh'
    BY <1>1, <1>2 DEF Inv, TypeOK, ReaderRecord, FlightsLed, PastBehind, SnapshotsFresh, LedEntriesFresh, Entry, OthersKept
  <1>7. LedEntriesFresh'
    BY <1>1, <1>2 DEF Inv, TypeOK, LedEntriesFresh
  <1> QED BY <1>3, <1>4, <1>5, <1>6, <1>7 DEF Inv

\* A follower joins a flight that is in the air.
LEMMA JoinInv ==
  ASSUME Inv, NEW r \in Readers, Join(r)
  PROVE  Inv'
  <1>1. /\ UNCHANGED <<db, acked, returned, now, gen, writer, flights, entries>>
       /\ reader[r].pc = "call" /\ reader'[r].pc = "wait"
       /\ reader'[r].key = reader[r].key /\ reader'[r].val = reader[r].val
       /\ reader'[r].since = reader[r].since /\ reader'[r].gen = reader[r].gen /\ reader'[r].own = reader[r].own
       /\ reader[r].key \in DOMAIN flights
    BY DEF Inv, TypeOK, ReaderRecord, Join, dbVars, cacheVars
  <1>2. reader' \in [Readers -> ReaderRecord] /\ OthersKept(r)
    BY DEF Inv, TypeOK, ReaderRecord, ReaderPCs, OthersKept, Join, dbVars, cacheVars
  <1>3. TypeOK'
    BY <1>1, <1>2 DEF Inv, TypeOK, ReaderRecord
  <1>4. FlightsLed'
    BY <1>1, <1>2 DEF Inv, TypeOK, ReaderRecord, FlightsLed, OthersKept
  <1>5. PastBehind'
    BY <1>1, <1>2 DEF Inv, TypeOK, ReaderRecord, PastBehind, OthersKept
  <1>6. SnapshotsFresh'
    BY <1>1, <1>2 DEF Inv, TypeOK, ReaderRecord, FlightsLed, PastBehind, SnapshotsFresh, LedEntriesFresh, Entry, OthersKept
  <1>7. LedEntriesFresh'
    BY <1>1, <1>2 DEF Inv, TypeOK, LedEntriesFresh
  <1> QED BY <1>3, <1>4, <1>5, <1>6, <1>7 DEF Inv

\* The snapshot is the present, which covers all that was acknowledged.
LEMMA LoadQueryInv ==
  ASSUME Inv, NEW r \in Readers, LoadQuery(r)
  PROVE  Inv'
  <1>1. /\ UNCHANGED <<db, acked, returned, now, gen, writer, flights, entries>>
       /\ reader[r].pc = "load" /\ reader'[r].pc = "loaded" /\ reader'[r].val = db
       /\ reader'[r].key = reader[r].key /\ reader'[r].own = reader[r].own
       /\ reader'[r].since = reader[r].since /\ reader'[r].gen = reader[r].gen
    BY DEF Inv, TypeOK, ReaderRecord, LoadQuery, dbVars, cacheVars
  <1>2. reader' \in [Readers -> ReaderRecord] /\ OthersKept(r)
    BY DEF Inv, TypeOK, ReaderRecord, ReaderPCs, OthersKept, LoadQuery, dbVars, cacheVars
  <1>3. TypeOK'
    BY <1>1, <1>2 DEF Inv, TypeOK, ReaderRecord
  <1>4. FlightsLed'
    BY <1>1, <1>2 DEF Inv, TypeOK, ReaderRecord, FlightsLed, OthersKept
  <1>5. PastBehind'
    BY <1>1, <1>2 DEF Inv, TypeOK, ReaderRecord, PastBehind, OthersKept
  <1>6. SnapshotsFresh'
    BY <1>1, <1>2 DEF Inv, TypeOK, ReaderRecord, FlightsLed, PastBehind, SnapshotsFresh, LedEntriesFresh, Entry, OthersKept
  <1>7. LedEntriesFresh'
    BY <1>1, <1>2 DEF Inv, TypeOK, LedEntriesFresh
  <1> QED BY <1>3, <1>4, <1>5, <1>6, <1>7 DEF Inv

\* A reader that has returned holds nothing.
LEMMA ReturnInv ==
  ASSUME Inv, NEW r \in Readers, Return(r)
  PROVE  Inv'
  <1>1. /\ UNCHANGED <<db, acked, returned, now, gen, writer, flights, entries>>
       /\ reader[r].pc \in {"done", "failed"} /\ reader'[r].pc = "idle"
       /\ reader'[r].gen = 0 /\ reader'[r].since = 0
    BY AnyKeyInKeys DEF Inv, TypeOK, ReaderRecord, Return, Idle, dbVars, cacheVars
  <1>2. reader' \in [Readers -> ReaderRecord] /\ OthersKept(r)
    BY AnyKeyInKeys DEF Inv, TypeOK, ReaderRecord, ReaderPCs, OthersKept, Return, Idle, dbVars, cacheVars
  <1>3. TypeOK'
    BY <1>1, <1>2 DEF Inv, TypeOK, ReaderRecord
  <1>4. FlightsLed'
    BY <1>1, <1>2 DEF Inv, TypeOK, ReaderRecord, FlightsLed, OthersKept
  <1>5. PastBehind'
    BY <1>1, <1>2 DEF Inv, TypeOK, ReaderRecord, PastBehind, OthersKept
  <1>6. SnapshotsFresh'
    BY <1>1, <1>2 DEF Inv, TypeOK, ReaderRecord, FlightsLed, PastBehind, SnapshotsFresh, LedEntriesFresh, Entry, OthersKept
  <1>7. LedEntriesFresh'
    BY <1>1, <1>2 DEF Inv, TypeOK, LedEntriesFresh
  <1> QED BY <1>3, <1>4, <1>5, <1>6, <1>7 DEF Inv

\* When a load returns, its flight ends: the leader keeps its snapshot as an own
\* answer, every follower gets it as an answer that is not its own.
LEMMA LoadReturnInv ==
  ASSUME Inv, NEW r \in Readers, LoadReturn(r)
  PROVE  Inv'
  <1> DEFINE k == reader[r].key
             Follower(q) == q # r /\ reader[q].pc = "wait" /\ reader[q].key = k
  <1>1. /\ UNCHANGED <<db, acked, returned, now, gen, writer, entries>>
       /\ reader[r].pc = "loaded"
       /\ DOMAIN flights' = DOMAIN flights \ {k}
       /\ \A j \in DOMAIN flights' : flights'[j] = flights[j]
    BY DEF LoadReturn, Land, dbVars, cacheVars
  <1>2. \A q \in Readers : reader'[q] =
          IF q = r \/ Follower(q)
          THEN [reader[q] EXCEPT !.pc = "put", !.val = reader[r].val]
          ELSE reader[q]
    BY DEF LoadReturn, Sharing
  <1>3. \A q \in Readers :
          /\ reader'[q].key = reader[q].key /\ reader'[q].gen = reader[q].gen
          /\ reader'[q].since = reader[q].since /\ reader'[q].own = reader[q].own
          /\ q = r \/ Follower(q) => reader'[q].pc = "put" /\ reader'[q].val = reader[r].val
          /\ ~(q = r \/ Follower(q)) => reader'[q] = reader[q]
    BY <1>2 DEF Inv, TypeOK, ReaderRecord
  <1>4. reader' \in [Readers -> ReaderRecord]
    <2>1. \A q \in Readers : reader'[q] \in ReaderRecord
      BY <1>2 DEF Inv, TypeOK, ReaderRecord, ReaderPCs
    <2> QED BY <2>1 DEF LoadReturn
  <1>5. TypeOK'
    BY <1>1, <1>4 DEF Inv, TypeOK
  <1>6. FlightsLed'
    BY <1>1, <1>3, <1>4 DEF Inv, TypeOK, ReaderRecord, FlightsLed
  <1>7. PastBehind'
    BY <1>1, <1>3 DEF Inv, TypeOK, PastBehind
  <1>8. SnapshotsFresh'
    BY <1>1, <1>3 DEF Inv, TypeOK, ReaderRecord, FlightsLed, SnapshotsFresh
  <1>9. LedEntriesFresh'
    BY <1>1 DEF Inv, LedEntriesFresh
  <1> QED BY <1>5, <1>6, <1>7, <1>8, <1>9 DEF Inv

\* A failed load ends its flight and leaves no answer.
LEMMA LoadFailInv ==
  ASSUME Inv, NEW r \in Readers, LoadFail(r)
  PROVE  Inv'
  <1>1. TypeOK'
    BY DEF Inv, TypeOK, ReaderRecord, ReaderPCs, WriterRecord, WriterPCs, LoadFail, Sharing, Land, dbVars, cacheVars
  <1>2. FlightsLed'
    BY DEF Inv, TypeOK, ReaderRecord, FlightsLed, LoadFail, Sharing, Land, dbVars, cacheVars
  <1>3. PastBehind'
    BY DEF Inv, TypeOK, ReaderRecord, WriterRecord, PastBehind, LoadFail, Sharing, Land, dbVars, cacheVars
  <1>4. SnapshotsFresh'
    BY DEF Inv, TypeOK, ReaderRecord, FlightsLed, PastBehind, SnapshotsFresh, LoadFail, Sharing, Land, dbVars, cacheVars
  <1>5. LedEntriesFresh'
    BY DEF Inv, TypeOK, LedEntriesFresh, LoadFail, Sharing, Land, dbVars, cacheVars
  <1> QED BY <1>1, <1>2, <1>3, <1>4, <1>5 DEF Inv

\* putIfCurrent stores an own snapshot only while no invalidation came since its
\* reader took the generation, that is while it covers every acknowledged write.
LEMMA PutIfCurrentInv ==
  ASSUME Inv, NEW r \in Readers, PutIfCurrent(r)
  PROVE  Inv'
  <1> DEFINE e == [val |-> reader[r].val, expires |-> now + TTL, own |-> reader[r].own]
  <1>1. /\ UNCHANGED <<db, acked, returned, now, gen, writer, flights>>
       /\ reader[r].pc = "put" /\ reader'[r].pc = "done"
       /\ reader'[r].key = reader[r].key /\ reader'[r].val = reader[r].val
       /\ reader'[r].since = reader[r].since /\ reader'[r].gen = reader[r].gen /\ reader'[r].own = reader[r].own
    BY DEF Inv, TypeOK, ReaderRecord, PutIfCurrent, dbVars
  <1>2. reader' \in [Readers -> ReaderRecord] /\ OthersKept(r)
    BY DEF Inv, TypeOK, ReaderRecord, ReaderPCs, OthersKept, PutIfCurrent
  <1>3. e \in Entry /\ reader[r].key \in Keys
    BY ConstantsAssumption DEF Inv, TypeOK, ReaderRecord, Entry
  <1>4. reader[r].gen = gen /\ e.own => e.val >= acked
    BY <1>1 DEF Inv, SnapshotsFresh
  <1>5. /\ DOMAIN entries' \subseteq DOMAIN entries \cup {reader[r].key}
        /\ \A j \in DOMAIN entries' :
             \/ entries'[j] = e /\ reader[r].gen = gen
             \/ j \in DOMAIN entries /\ entries'[j] = entries[j]
    <2>1. CASE ~Disabled /\ reader[r].gen = gen
      <3>1. Store(reader[r].key, e)
        BY <2>1 DEF PutIfCurrent
      <3>2. reader[r].key \in Keys
        BY <1>3
      <3> HIDE DEF e
      <3>3. /\ DOMAIN entries' \subseteq DOMAIN entries \cup {reader[r].key}
            /\ \A j \in DOMAIN entries' : entries'[j] = IF j = reader[r].key THEN e ELSE entries[j]
        BY <3>1, <3>2, StoreEffect
      <3> QED BY <2>1, <3>3
    <2>2. CASE ~(~Disabled /\ reader[r].gen = gen)
      BY <2>2 DEF PutIfCurrent
    <2> QED BY <2>1, <2>2
  <1>6. TypeOK'
    BY <1>1, <1>2, <1>3, <1>5 DEF Inv, TypeOK
  <1>7. FlightsLed'
    BY <1>1, <1>2 DEF Inv, TypeOK, ReaderRecord, FlightsLed, OthersKept
  <1>8. PastBehind'
    BY <1>1, <1>2 DEF Inv, TypeOK, ReaderRecord, PastBehind, OthersKept
  <1>9. SnapshotsFresh'
    BY <1>1, <1>2 DEF Inv, TypeOK, ReaderRecord, SnapshotsFresh, OthersKept
  <1>10. LedEntriesFresh'
    BY <1>1, <1>4, <1>5 DEF Inv, LedEntriesFresh
  <1> QED BY <1>6, <1>7, <1>8, <1>9, <1>10 DEF Inv

-----------------------------------------------------------------------------
(* Writers and the environment.                                               *)

\* A request on its way has changed nothing.
LEMMA WriteSendInv ==
  ASSUME Inv, NEW w \in Writers, WriteSend(w)
  PROVE  Inv'
  <1>1. TypeOK'
    BY DEF Inv, TypeOK, ReaderRecord, ReaderPCs, WriterRecord, WriterPCs, WriteSend, dbVars, cacheVars
  <1>2. FlightsLed'
    BY DEF Inv, TypeOK, ReaderRecord, FlightsLed, WriteSend, dbVars, cacheVars
  <1>3. PastBehind'
    BY DEF Inv, TypeOK, ReaderRecord, WriterRecord, PastBehind, WriteSend, dbVars, cacheVars
  <1>4. SnapshotsFresh'
    BY DEF Inv, TypeOK, ReaderRecord, FlightsLed, PastBehind, SnapshotsFresh, WriteSend, dbVars, cacheVars
  <1>5. LedEntriesFresh'
    BY DEF Inv, TypeOK, LedEntriesFresh, WriteSend, dbVars, cacheVars
  <1> QED BY <1>1, <1>2, <1>3, <1>4, <1>5 DEF Inv

\* A change that lands moves the database past every snapshot but is not yet acknowledged.
LEMMA WriteLandInv ==
  ASSUME Inv, NEW w \in Writers, WriteLand(w)
  PROVE  Inv'
  <1>1. TypeOK'
    BY DEF Inv, TypeOK, ReaderRecord, ReaderPCs, WriterRecord, WriterPCs, WriteLand, cacheVars
  <1>2. FlightsLed'
    BY DEF Inv, TypeOK, ReaderRecord, FlightsLed, WriteLand, cacheVars
  <1>3. PastBehind'
    BY DEF Inv, TypeOK, ReaderRecord, WriterRecord, PastBehind, WriteLand, cacheVars
  <1>4. SnapshotsFresh'
    BY DEF Inv, TypeOK, ReaderRecord, FlightsLed, PastBehind, SnapshotsFresh, WriteLand, cacheVars
  <1>5. LedEntriesFresh'
    BY DEF Inv, TypeOK, LedEntriesFresh, WriteLand, cacheVars
  <1> QED BY <1>1, <1>2, <1>3, <1>4, <1>5 DEF Inv

\* The hook leaves no entry and a generation no reader holds, so nothing older
\* than the acknowledged write can be published.
LEMMA WriteOkInv ==
  ASSUME Inv, NEW w \in Writers, WriteOk(w)
  PROVE  Inv'
  <1>1. TypeOK'
    BY EmptyMap DEF Inv, TypeOK, ReaderRecord, ReaderPCs, WriterRecord, WriterPCs, WriteOk, Invalidate, Later
  <1>2. FlightsLed'
    BY DEF Inv, TypeOK, ReaderRecord, FlightsLed, WriteOk, Invalidate, Later
  <1>3. PastBehind'
    BY DEF Inv, TypeOK, ReaderRecord, WriterRecord, PastBehind, WriteOk, Invalidate, Later
  <1>4. SnapshotsFresh'
    BY DEF Inv, TypeOK, ReaderRecord, FlightsLed, PastBehind, SnapshotsFresh, WriteOk, Invalidate, Later
  <1>5. LedEntriesFresh'
    BY EmptyMap DEF Inv, TypeOK, LedEntriesFresh, WriteOk, Invalidate, Later
  <1> QED BY <1>1, <1>2, <1>3, <1>4, <1>5 DEF Inv

\* A failed call acknowledges nothing.
LEMMA WriteErrorInv ==
  ASSUME Inv, NEW w \in Writers, WriteError(w)
  PROVE  Inv'
  <1>1. TypeOK'
    BY DEF Inv, TypeOK, ReaderRecord, ReaderPCs, WriterRecord, WriterPCs, WriteError, Later, cacheVars
  <1>2. FlightsLed'
    BY DEF Inv, TypeOK, ReaderRecord, FlightsLed, WriteError, Later, cacheVars
  <1>3. PastBehind'
    BY DEF Inv, TypeOK, ReaderRecord, WriterRecord, PastBehind, WriteError, Later, cacheVars
  <1>4. SnapshotsFresh'
    BY DEF Inv, TypeOK, ReaderRecord, FlightsLed, PastBehind, SnapshotsFresh, WriteError, Later, cacheVars
  <1>5. LedEntriesFresh'
    BY DEF Inv, TypeOK, LedEntriesFresh, WriteError, Later, cacheVars
  <1> QED BY <1>1, <1>2, <1>3, <1>4, <1>5 DEF Inv

\* Outside writes and the clock touch neither the cache nor the readers.
LEMMA EnvironmentInv ==
  ASSUME Inv, OutsideWrite \/ Tick
  PROVE  Inv'
  <1>1. TypeOK'
    BY DEF Inv, TypeOK, ReaderRecord, ReaderPCs, WriterRecord, WriterPCs, OutsideWrite, Tick, dbVars, cacheVars
  <1>2. FlightsLed'
    BY DEF Inv, TypeOK, ReaderRecord, FlightsLed, OutsideWrite, Tick, dbVars, cacheVars
  <1>3. PastBehind'
    BY DEF Inv, TypeOK, ReaderRecord, WriterRecord, PastBehind, OutsideWrite, Tick, dbVars, cacheVars
  <1>4. SnapshotsFresh'
    BY DEF Inv, TypeOK, ReaderRecord, FlightsLed, PastBehind, SnapshotsFresh, OutsideWrite, Tick, dbVars, cacheVars
  <1>5. LedEntriesFresh'
    BY DEF Inv, TypeOK, LedEntriesFresh, OutsideWrite, Tick, dbVars, cacheVars
  <1> QED BY <1>1, <1>2, <1>3, <1>4, <1>5 DEF Inv

\* Stuttering steps.
LEMMA StutterInv ==
  ASSUME Inv, UNCHANGED vars
  PROVE  Inv'
  <1>1. TypeOK'
    BY DEF Inv, TypeOK, ReaderRecord, ReaderPCs, WriterRecord, WriterPCs, vars
  <1>2. FlightsLed'
    BY DEF Inv, TypeOK, ReaderRecord, FlightsLed, vars
  <1>3. PastBehind'
    BY DEF Inv, TypeOK, ReaderRecord, WriterRecord, PastBehind, vars
  <1>4. SnapshotsFresh'
    BY DEF Inv, TypeOK, ReaderRecord, FlightsLed, PastBehind, SnapshotsFresh, vars
  <1>5. LedEntriesFresh'
    BY DEF Inv, TypeOK, LedEntriesFresh, vars
  <1> QED BY <1>1, <1>2, <1>3, <1>4, <1>5 DEF Inv

-----------------------------------------------------------------------------
(* The theorems.                                                              *)

LEMMA NextInv == Inv /\ [Next]_vars => Inv'
  <1> SUFFICES ASSUME Inv, [Next]_vars PROVE Inv'
    OBVIOUS
  <1>1. ASSUME NEW r \in Readers, ReadStep(r) PROVE Inv'
    BY <1>1, ReadGenerationInv, LeadInv, JoinInv, LoadQueryInv, LoadReturnInv, LoadFailInv,
       PutIfCurrentInv, ReturnInv DEF ReadStep
  <1>2. ASSUME NEW r \in Readers, NEW k \in Keys, Hit(r, k) \/ Miss(r, k) PROVE Inv'
    BY <1>2, HitInv, MissInv
  <1>3. ASSUME NEW w \in Writers,
               WriteSend(w) \/ WriteLand(w) \/ WriteOk(w) \/ WriteError(w)
        PROVE  Inv'
    BY <1>3, WriteSendInv, WriteLandInv, WriteOkInv, WriteErrorInv
  <1>4. CASE OutsideWrite \/ Tick
    BY <1>4, EnvironmentInv
  <1>5. CASE UNCHANGED vars
    BY <1>5, StutterInv
  <1> QED BY <1>1, <1>2, <1>3, <1>4, <1>5 DEF Next

THEOREM Invariance == Spec => []Inv
  BY InitInv, NextInv, PTL DEF Spec

\* Every variable keeps its type: entries and flights only ever map known keys.
THEOREM TypeCorrect == Spec => []TypeOK
  <1>1. Inv => TypeOK
    BY DEF Inv
  <1> QED BY <1>1, Invariance, PTL

\* No entry published by the goroutine that loaded it is older than the last
\* acknowledged write: the generation taken before the load and compared when
\* storing closes the window between a read and a write (cache.go, pool.go).
THEOREM LedEntriesAreFresh == Spec => []LedEntriesFresh
  <1>1. Inv => LedEntriesFresh
    BY DEF Inv
  <1> QED BY <1>1, Invariance, PTL

\* A read whose answer comes from a load its own goroutine led, now or when the
\* entry was stored, sees every write acknowledged before it began (client.go).
THEOREM ReadsSeeAcknowledgedWrites == Spec => []ReadYourWrites
  <1>1. Inv => ReadYourWrites
    BY DEF Inv, SnapshotsFresh, ReadYourWrites
  <1> QED BY <1>1, Invariance, PTL

\* At most one load of a key is in flight, and a goroutine that waits waits for
\* a flight that still has a leader (pool.go, singleflight).
THEOREM LoadsAreShared == Spec => []OneFlightPerKey
  <1>1. Inv => OneFlightPerKey
    BY DEF Inv, FlightsLed, OneFlightPerKey
  <1> QED BY <1>1, Invariance, PTL

-----------------------------------------------------------------------------
(* Capacity. newReadCache never gives the cache less than one slot, which is  *)
(* what lets evict always make room.                                          *)

Capacity == IsFiniteSet(DOMAIN entries) /\ WithinCapacity

\* Whatever store keeps of a cache within its capacity leaves a slot free.
LEMMA KeptLeavesASlot ==
  ASSUME Capacity, NEW ks \in Kept
  PROVE  IsFiniteSet(ks) /\ Cardinality(ks) < MaxEntries
  <1> DEFINE D == DOMAIN entries
             live == {k \in D : ~Expired(k)}
  <1>1. /\ IsFiniteSet(D) /\ Cardinality(D) \in Nat /\ Cardinality(D) <= MaxEntries
        /\ MaxEntries \in Nat /\ MaxEntries > 0
    BY ConstantsAssumption, FS_CardinalityType DEF Capacity, WithinCapacity
  <1>2. IsFiniteSet(live) /\ Cardinality(live) \in Nat /\ Cardinality(live) <= Cardinality(D)
    <2>1. live \subseteq D
      OBVIOUS
    <2> QED BY <1>1, <2>1, FS_Subset, FS_CardinalityType
  <1>3. CASE Cardinality(D) < MaxEntries
    BY <1>1, <1>3 DEF Kept
  <1>4. CASE ~(Cardinality(D) < MaxEntries)
    <2>1. ks \in Evict
      BY <1>1, <1>4 DEF Kept
    <2>2. CASE live # D /\ Cardinality(live) < MaxEntries
      BY <2>1, <2>2, <1>2 DEF Evict
    <2>3. CASE ~(live # D /\ Cardinality(live) < MaxEntries)
      <3>1. PICK k \in Oldest(live) : ks = live \ {k}
        BY <2>1, <2>3 DEF Evict
      <3>2. k \in live
        BY <3>1 DEF Oldest
      <3>3. IsFiniteSet(ks) /\ Cardinality(ks) = Cardinality(live) - 1
        BY <1>2, <3>1, <3>2, FS_RemoveElement
      <3> HIDE DEF live
      <3> QED BY <1>1, <1>2, <3>3
    <2> QED BY <2>2, <2>3
  <1> QED BY <1>3, <1>4

\* A step leaves the cached keys alone, drops some of them, or stores one key
\* beside those that store kept.
LEMMA CachedKeysStep ==
  ASSUME [Next]_vars
  PROVE  \/ DOMAIN entries' \subseteq DOMAIN entries
         \/ \E ks \in Kept : \E k : DOMAIN entries' = ks \cup {k}
  <1>1. ASSUME NEW r \in Readers, ReadStep(r)
        PROVE  \/ entries' = entries
               \/ \E ks \in Kept : \E k : DOMAIN entries' = ks \cup {k}
    BY <1>1 DEF ReadStep, ReadGeneration, Lead, Join, LoadQuery, LoadReturn, LoadFail,
                PutIfCurrent, Store, Return, cacheVars
  <1>2. ASSUME NEW r \in Readers, NEW k \in Keys, Hit(r, k) \/ Miss(r, k)
        PROVE  DOMAIN entries' \subseteq DOMAIN entries
    BY <1>2 DEF Hit, Miss, Keep, cacheVars
  <1>3. ASSUME NEW w \in Writers,
               WriteSend(w) \/ WriteLand(w) \/ WriteOk(w) \/ WriteError(w)
        PROVE  DOMAIN entries' \subseteq DOMAIN entries
    BY <1>3, EmptyMap DEF WriteSend, WriteLand, WriteOk, Invalidate, WriteError, cacheVars
  <1>4. CASE OutsideWrite \/ Tick \/ UNCHANGED vars
    BY <1>4 DEF OutsideWrite, Tick, cacheVars, vars
  <1> QED BY <1>1, <1>2, <1>3, <1>4 DEF Next

\* The cache is finite and within its capacity in every state.
LEMMA CapacityHolds == Spec => []Capacity
  <1>1. Init => Capacity
    BY ConstantsAssumption, EmptyMap, FS_EmptySet DEF Init, Capacity, WithinCapacity
  <1>2. Capacity /\ [Next]_vars => Capacity'
    <2> SUFFICES ASSUME Capacity, [Next]_vars PROVE Capacity'
      OBVIOUS
    <2>1. MaxEntries \in Nat
      BY ConstantsAssumption
    <2>2. CASE DOMAIN entries' \subseteq DOMAIN entries
      <3>1. /\ IsFiniteSet(DOMAIN entries')
            /\ Cardinality(DOMAIN entries') <= Cardinality(DOMAIN entries)
        BY <2>2, FS_Subset DEF Capacity
      <3>2. Cardinality(DOMAIN entries) \in Nat /\ Cardinality(DOMAIN entries') \in Nat
        BY <3>1, FS_CardinalityType DEF Capacity
      <3> QED BY <2>1, <3>1, <3>2 DEF Capacity, WithinCapacity
    <2>3. ASSUME NEW ks \in Kept, NEW k, DOMAIN entries' = ks \cup {k}
          PROVE  Capacity'
      <3>1. IsFiniteSet(ks) /\ Cardinality(ks) \in Nat /\ Cardinality(ks) < MaxEntries
        BY KeptLeavesASlot, FS_CardinalityType
      <3>2. /\ IsFiniteSet(ks \cup {k})
            /\ Cardinality(ks \cup {k}) \in {Cardinality(ks), Cardinality(ks) + 1}
        BY <3>1, FS_AddElement
      <3> QED BY <2>1, <2>3, <3>1, <3>2 DEF Capacity, WithinCapacity
    <2> QED BY <2>2, <2>3, CachedKeysStep
  <1> QED BY <1>1, <1>2, PTL DEF Spec

\* The cache never holds more than CACHE_MAX_ENTRIES entries, whatever order of
\* stores, overwrites, expiries and evictions led there (cache.go:111-144).
THEOREM CacheWithinCapacity == Spec => []WithinCapacity
  <1>1. Capacity => WithinCapacity
    BY DEF Capacity
  <1> QED BY <1>1, CapacityHolds, PTL

-----------------------------------------------------------------------------
(* What eviction costs.                                                       *)

\* evict drops a live entry only from a cache that holds no expired one, and
\* then the one closest to its expiry: a full cache with an expired entry has a
\* slot once that entry is gone.
LEMMA EvictsOldest ==
  ASSUME Capacity, NEW ks \in Kept, NEW k \in DOMAIN entries \ ks, ~Expired(k)
  PROVE  \A j \in DOMAIN entries : ~Expired(j) /\ entries[k].expires <= entries[j].expires
  <1> DEFINE live == {j \in DOMAIN entries : ~Expired(j)}
  <1>1. ks \in Evict /\ k \in live
    BY DEF Kept
  <1>2. CASE live # DOMAIN entries
    <2>1. Cardinality(live) < Cardinality(DOMAIN entries) /\ Cardinality(live) \in Nat
      BY <1>2, FS_Subset, FS_CardinalityType DEF Capacity
    <2>2. Cardinality(live) < MaxEntries
      BY <2>1, ConstantsAssumption, FS_CardinalityType DEF Capacity, WithinCapacity
    <2>3. ks = live
      BY <1>1, <1>2, <2>2 DEF Evict
    <2> QED BY <1>1, <2>3
  <1>3. CASE live = DOMAIN entries
    <2>1. PICK o \in Oldest(live) : ks = live \ {o}
      BY <1>1, <1>3 DEF Evict
    <2>2. k = o
      BY <1>1, <2>1
    <2>3. \A j \in live : entries[k].expires <= entries[j].expires
      BY <2>1, <2>2 DEF Oldest
    <2> QED BY <1>3, <2>3
  <1> QED BY <1>2, <1>3

\* A cache that is off stays empty: putIfCurrent stores nothing.
OffIsEmpty == Disabled => DOMAIN entries = {}

LEMMA OffStaysEmpty ==
  ASSUME OffIsEmpty, [Next]_vars
  PROVE  OffIsEmpty'
  <1>1. ASSUME NEW r \in Readers, ReadStep(r)
        PROVE  Disabled => entries' = entries
    BY <1>1 DEF ReadStep, ReadGeneration, Lead, Join, LoadQuery, LoadReturn, LoadFail,
                PutIfCurrent, Return, cacheVars
  <1>2. ASSUME NEW r \in Readers, NEW k \in Keys, Hit(r, k) \/ Miss(r, k)
        PROVE  DOMAIN entries' \subseteq DOMAIN entries
    BY <1>2 DEF Hit, Miss, Keep, cacheVars
  <1>3. ASSUME NEW w \in Writers,
               WriteSend(w) \/ WriteLand(w) \/ WriteOk(w) \/ WriteError(w)
        PROVE  DOMAIN entries' \subseteq DOMAIN entries
    BY <1>3, EmptyMap DEF WriteSend, WriteLand, WriteOk, Invalidate, WriteError, cacheVars
  <1>4. CASE OutsideWrite \/ Tick \/ UNCHANGED vars
    BY <1>4 DEF OutsideWrite, Tick, cacheVars, vars, OffIsEmpty
  <1> QED BY <1>1, <1>2, <1>3, <1>4 DEF Next, OffIsEmpty, Disabled

\* The step that ExpiredGoFirst speaks of.
DropsInOrder ==
  gen' = gen =>
    \A k \in DOMAIN entries \ DOMAIN entries' :
      ~Expired(k) =>
        \A j \in DOMAIN entries' \cap DOMAIN entries :
          ~Expired(j) /\ (entries[j].expires >= entries[k].expires \/ entries'[j] # entries[j])

\* get drops an expired entry only, and a store what evict dropped.
LEMMA DropsInOrderStep ==
  ASSUME Inv, Capacity, OffIsEmpty, [Next]_vars
  PROVE  DropsInOrder
  <1>1. ASSUME NEW r \in Readers, PutIfCurrent(r)
        PROVE  DropsInOrder
    <2>1. CASE entries' = entries
      BY <2>1 DEF DropsInOrder
    <2>2. CASE entries' # entries
      <3> DEFINE e == [val |-> reader[r].val, expires |-> now + TTL, own |-> reader[r].own]
      <3>1. Store(reader[r].key, e)
        BY <1>1, <2>2 DEF PutIfCurrent
      <3> HIDE DEF e
      <3>2. PICK ks \in Kept : DOMAIN entries' = ks \cup {reader[r].key}
        BY <3>1 DEF Store
      <3> SUFFICES ASSUME NEW k \in DOMAIN entries \ DOMAIN entries', ~Expired(k),
                          NEW j \in DOMAIN entries' \cap DOMAIN entries
                   PROVE  ~Expired(j) /\ entries[j].expires >= entries[k].expires
        BY DEF DropsInOrder
      <3>3. ~Expired(j) /\ entries[k].expires <= entries[j].expires
        BY <3>2, EvictsOldest
      <3>4. entries[k].expires \in Nat /\ entries[j].expires \in Nat
        BY DEF Inv, TypeOK, Entry
      <3> QED BY <3>3, <3>4
    <2> QED BY <2>1, <2>2
  <1>2. ASSUME NEW r \in Readers, ReadStep(r), ~PutIfCurrent(r)
        PROVE  DropsInOrder
    <2>1. entries' = entries
      BY <1>2 DEF ReadStep, ReadGeneration, Lead, Join, LoadQuery, LoadReturn, LoadFail,
                  Return, cacheVars
    <2> QED BY <2>1 DEF DropsInOrder
  <1>3. ASSUME NEW r \in Readers, NEW k \in Keys, Hit(r, k)
        PROVE  DropsInOrder
    BY <1>3 DEF Hit, cacheVars, DropsInOrder
  <1>4. ASSUME NEW r \in Readers, NEW k \in Keys, Miss(r, k)
        PROVE  DropsInOrder
    <2>1. DOMAIN entries' = DOMAIN entries \ {k} /\ ~CachedLive(k)
      BY <1>4 DEF Miss, Keep
    <2> QED BY <2>1 DEF DropsInOrder, CachedLive, OffIsEmpty
  <1>5. ASSUME NEW w \in Writers,
               WriteSend(w) \/ WriteLand(w) \/ WriteOk(w) \/ WriteError(w)
        PROVE  DropsInOrder
    <2>1. gen' # gen \/ entries' = entries
      BY <1>5 DEF WriteSend, WriteLand, WriteOk, Invalidate, WriteError, cacheVars, Inv, TypeOK
    <2> QED BY <2>1 DEF DropsInOrder
  <1>6. CASE OutsideWrite \/ Tick \/ UNCHANGED vars
    BY <1>6 DEF OutsideWrite, Tick, cacheVars, vars, DropsInOrder
  <1> QED BY <1>1, <1>2, <1>3, <1>4, <1>5, <1>6 DEF Next

\* Only an invalidation drops a live entry while an expired one holds a slot or
\* another is closer to its expiry (evict, cache.go:118-144).
THEOREM ExpiredEntriesGoFirst == Spec => ExpiredGoFirst
  <1>1. Init => OffIsEmpty
    BY EmptyMap DEF Init, OffIsEmpty
  <1>2. OffIsEmpty /\ [Next]_vars => OffIsEmpty'
    BY OffStaysEmpty
  <1>3. ASSUME Inv, Capacity, OffIsEmpty, [Next]_vars
        PROVE  [DropsInOrder]_vars
    BY <1>3, DropsInOrderStep
  <1>4. [DropsInOrder]_vars
          => [gen' = gen =>
                \A k \in DOMAIN entries \ DOMAIN entries' :
                  ~Expired(k) =>
                    \A j \in DOMAIN entries' \cap DOMAIN entries :
                      ~Expired(j) /\ (entries[j].expires >= entries[k].expires
                                        \/ entries'[j] # entries[j])]_vars
    BY DEF DropsInOrder
  <1> QED BY <1>1, <1>2, <1>3, <1>4, Invariance, CapacityHolds, PTL DEF Spec, ExpiredGoFirst
=============================================================================
