------------------------- MODULE DolConfigCacheProofs -------------------------
(* What DolConfigCache guarantees for any number of callers, any durations    *)
(* and any bounds.                                                            *)
EXTENDS DolConfigCache, TLAPS

LEMMA InitInv == Init => Inv
  BY DurationsAssumption DEF Init, Inv, TypeOK, ConfigDated, LoadsDated, OldOnlyInOutage,
       Config, CallerRecord, CallerPCs, Idle, Default

\* Every step of a caller keeps its record a record, and the others' records.
OthersKept(c) == \A d \in Callers : d # c => caller'[d] = caller[d]

\* A value that may be served without a load is young, or a load has failed
\* less than RetryAfter ago.
LEMMA FreshIsRecent ==
  ASSUME Inv, Fresh
  PROVE  \/ cfg.val # Default /\ now - cfg.readAt < TTL + Deadline
         \/ now - failedAt < RetryAfter
  <1>1. CASE cfg.ok
    BY <1>1, DurationsAssumption DEF Inv, TypeOK, Config, ConfigDated, Fresh, Trusted
  <1>2. CASE ~cfg.ok
    BY <1>2, DurationsAssumption DEF Inv, TypeOK, Config, ConfigDated, Fresh, Trusted
  <1> QED BY <1>1, <1>2

LEMMA RecallInv ==
  ASSUME Inv, NEW c \in Callers, Recall(c)
  PROVE  Inv'
  <1>1. /\ UNCHANGED <<now, consts, cfg, failedAt>>
        /\ caller' \in [Callers -> CallerRecord] /\ OthersKept(c)
        /\ caller'[c].pc = "served" /\ caller'[c].at = now
        /\ caller'[c].val = cfg.val /\ caller'[c].readAt = cfg.readAt
    BY DEF Inv, TypeOK, Config, CallerRecord, CallerPCs, Recall, Serve, OthersKept
  <1>2. TypeOK' /\ ConfigDated'
    BY <1>1 DEF Inv, TypeOK, ConfigDated
  <1>3. LoadsDated'
    BY <1>1 DEF Inv, LoadsDated, OthersKept
  <1>4. OldOnlyInOutage'
    BY <1>1, FreshIsRecent DEF Inv, OldOnlyInOutage, OthersKept, Recall
  <1> QED BY <1>2, <1>3, <1>4 DEF Inv

\* A load that has just begun is within its deadline.
LEMMA LoadBeginsInv ==
  ASSUME Inv, NEW c \in Callers, Reload(c) \/ Verify(c)
  PROVE  Inv'
  <1>1. /\ UNCHANGED <<now, consts, cfg, failedAt>>
        /\ caller' \in [Callers -> CallerRecord] /\ OthersKept(c)
        /\ caller'[c].pc = "load" /\ caller'[c].began = now
    <2>1. CASE Reload(c)
      BY <2>1 DEF Inv, TypeOK, CallerRecord, CallerPCs, Reload, Idle, Default, OthersKept
    <2>2. CASE Verify(c)
      BY <2>2 DEF Inv, TypeOK, CallerRecord, CallerPCs, Verify, Idle, Default, OthersKept
    <2> QED BY <2>1, <2>2
  <1>2. TypeOK' /\ ConfigDated'
    BY <1>1 DEF Inv, TypeOK, ConfigDated
  <1>3. LoadsDated'
    BY <1>1, DurationsAssumption DEF Inv, TypeOK, LoadsDated, OthersKept
  <1>4. OldOnlyInOutage'
    BY <1>1 DEF Inv, OldOnlyInOutage, OthersKept
  <1> QED BY <1>2, <1>3, <1>4 DEF Inv

LEMMA ReadConstsInv ==
  ASSUME Inv, NEW c \in Callers, ReadConsts(c)
  PROVE  Inv'
  <1>1. /\ UNCHANGED <<now, consts, cfg, failedAt>>
        /\ caller' \in [Callers -> CallerRecord] /\ OthersKept(c)
        /\ caller[c].pc = "load" /\ caller'[c].pc = "loaded"
        /\ caller'[c].began = caller[c].began
        /\ caller'[c].val = consts /\ caller'[c].readAt = now
    BY DEF Inv, TypeOK, CallerRecord, CallerPCs, ReadConsts, OthersKept
  <1>2. TypeOK' /\ ConfigDated'
    BY <1>1 DEF Inv, TypeOK, ConfigDated
  <1>3. LoadsDated'
    BY <1>1 DEF Inv, TypeOK, CallerRecord, LoadsDated, OthersKept, Default
  <1>4. OldOnlyInOutage'
    BY <1>1 DEF Inv, OldOnlyInOutage, OthersKept
  <1> QED BY <1>2, <1>3, <1>4 DEF Inv

\* What a load stores it read after it began, hence within its deadline.
LEMMA LearnInv ==
  ASSUME Inv, NEW c \in Callers, Learn(c)
  PROVE  Inv'
  <1>1. /\ UNCHANGED <<now, consts, failedAt>>
        /\ caller' \in [Callers -> CallerRecord] /\ OthersKept(c)
        /\ caller[c].pc = "loaded" /\ caller'[c].pc = "served" /\ caller'[c].at = now
        /\ caller'[c].val = caller[c].val /\ caller'[c].readAt = caller[c].readAt
    BY DEF Inv, TypeOK, CallerRecord, CallerPCs, Learn, Serve, OthersKept
  <1>2. /\ cfg' \in Config
        /\ cfg'.known /\ cfg'.ok /\ cfg'.at = now
        /\ cfg'.val = caller[c].val /\ cfg'.readAt = caller[c].readAt
    BY DEF Inv, TypeOK, CallerRecord, Config, Learn
  <1>3. caller[c].val # Default /\ now - caller[c].readAt <= Deadline
    BY <1>1, DurationsAssumption DEF Inv, TypeOK, CallerRecord, LoadsDated
  <1>4. TypeOK'
    BY <1>1, <1>2 DEF Inv, TypeOK
  <1>5. ConfigDated'
    BY <1>1, <1>2, <1>3 DEF Inv, TypeOK, ConfigDated
  <1>6. LoadsDated'
    BY <1>1 DEF Inv, LoadsDated, OthersKept
  <1>7. OldOnlyInOutage'
    BY <1>1, <1>3, DurationsAssumption DEF Inv, TypeOK, CallerRecord, OldOnlyInOutage, OthersKept
  <1> QED BY <1>4, <1>5, <1>6, <1>7 DEF Inv

\* A failure excuses what is served from now on, and what was served before.
LEMMA LoadFailedInv ==
  ASSUME Inv, NEW c \in Callers, LoadFailed(c)
  PROVE  Inv'
  <1>1. /\ UNCHANGED <<now, consts>> /\ failedAt' = now
        /\ caller' \in [Callers -> CallerRecord] /\ OthersKept(c)
        /\ caller'[c].pc = "served" /\ caller'[c].at = now
    BY DEF Inv, TypeOK, Config, CallerRecord, CallerPCs, LoadFailed, Serve, OthersKept
  <1>2. /\ cfg' \in Config
        /\ cfg'.known /\ ~cfg'.ok /\ cfg'.at = now
    BY DEF Inv, TypeOK, Config, LoadFailed
  <1>3. TypeOK'
    BY <1>1, <1>2 DEF Inv, TypeOK
  <1>4. ConfigDated'
    BY <1>1, <1>2 DEF Inv, TypeOK, ConfigDated
  <1>5. LoadsDated'
    BY <1>1 DEF Inv, LoadsDated, OthersKept
  <1>6. failedAt <= failedAt'
    BY <1>1 DEF Inv, ConfigDated
  <1>7. OldOnlyInOutage'
    BY <1>1, <1>6, DurationsAssumption
       DEF Inv, TypeOK, CallerRecord, OldOnlyInOutage, OthersKept
  <1> QED BY <1>3, <1>4, <1>5, <1>7 DEF Inv

LEMMA CallEndsInv ==
  ASSUME Inv, NEW c \in Callers, VerifyFailed(c) \/ Return(c)
  PROVE  Inv'
  <1>1. /\ UNCHANGED <<now, consts, cfg, failedAt>>
        /\ caller' \in [Callers -> CallerRecord] /\ OthersKept(c)
        /\ caller'[c].pc \in {"failed", "idle"}
    <2>1. CASE VerifyFailed(c)
      BY <2>1 DEF Inv, TypeOK, CallerRecord, CallerPCs, VerifyFailed, OthersKept
    <2>2. CASE Return(c)
      BY <2>2 DEF Inv, TypeOK, CallerRecord, CallerPCs, Return, Idle, Default, OthersKept
    <2> QED BY <2>1, <2>2
  <1>2. TypeOK' /\ ConfigDated'
    BY <1>1 DEF Inv, TypeOK, ConfigDated
  <1>3. LoadsDated' /\ OldOnlyInOutage'
    BY <1>1 DEF Inv, LoadsDated, OldOnlyInOutage, OthersKept
  <1> QED BY <1>2, <1>3 DEF Inv

\* Time passes only while every load is within its deadline.
LEMMA TickInv == Inv /\ Tick => Inv'
  <1> SUFFICES ASSUME Inv, Tick PROVE Inv'
    OBVIOUS
  <1>1. now' = now + 1 /\ UNCHANGED <<consts, cfg, failedAt, caller>>
    BY DEF Tick
  <1>2. TypeOK' /\ ConfigDated' /\ OldOnlyInOutage'
    BY <1>1 DEF Inv, TypeOK, Config, ConfigDated, OldOnlyInOutage
  <1>3. LoadsDated'
    BY <1>1, DurationsAssumption DEF Inv, TypeOK, CallerRecord, LoadsDated, Tick, Bounded
  <1> QED BY <1>1, <1>2, <1>3 DEF Inv

LEMMA StepInv == Inv /\ [Next]_vars => Inv'
  <1> SUFFICES ASSUME Inv, [Next]_vars PROVE Inv'
    OBVIOUS
  <1>1. ASSUME NEW c \in Callers, Step(c) PROVE Inv'
    BY <1>1, RecallInv, LoadBeginsInv, ReadConstsInv, LearnInv, LoadFailedInv, CallEndsInv DEF Step
  <1>2. CASE Change
    BY <1>2 DEF Change, Inv, TypeOK, ConfigDated, LoadsDated, OldOnlyInOutage
  <1>3. CASE Tick
    BY <1>3, TickInv
  <1>4. CASE UNCHANGED vars
    BY <1>4 DEF vars, Inv, TypeOK, ConfigDated, LoadsDated, OldOnlyInOutage
  <1> QED BY <1>1, <1>2, <1>3, <1>4 DEF Next

\* The inductive invariant holds in every state.
THEOREM Invariance == Spec => []Inv
  BY InitInv, StepInv, PTL DEF Spec

\* Every variable keeps its type: the cache holds constants and the time they
\* were learnt, or the defaults (pool.go:99-133).
THEOREM ConfigTypes == Spec => []TypeOK
  <1>1. Inv => TypeOK
    BY DEF Inv
  <1> QED BY Invariance, <1>1, PTL

\* Constants that are served without asking the database are recent, or a load
\* has just failed (DolConfig, pool.go:99-133).
THEOREM OldConstantsOnlyInOutage == Spec => []OldOnlyInOutage
  <1>1. Inv => OldOnlyInOutage
    BY DEF Inv
  <1> QED BY Invariance, <1>1, PTL

\* Constants once learnt are never given up for the defaults, whatever loads
\* overlap and fail (DolConfig, pool.go:120-132).
THEOREM ConstantsNeverForgotten == Spec => NeverForgotten
  <1>1. ASSUME Inv, [Next]_vars
        PROVE  [cfg.val # Default => cfg'.val # Default]_vars
    <2>1. ASSUME NEW c \in Callers, Learn(c) PROVE cfg'.val # Default
      BY <1>1, <2>1 DEF Inv, LoadsDated, Learn
    <2>2. ASSUME NEW c \in Callers, LoadFailed(c) PROVE cfg'.val = cfg.val
      BY <1>1, <2>2 DEF Inv, TypeOK, Config, LoadFailed
    <2>3. ASSUME NEW c \in Callers, Step(c) PROVE cfg.val # Default => cfg'.val # Default
      BY <2>1, <2>2, <2>3 DEF Step, Recall, Reload, Verify, ReadConsts, VerifyFailed, Return
    <2> QED BY <1>1, <2>3 DEF Next, Change, Tick
  <1> QED BY Invariance, <1>1, PTL DEF Spec, NeverForgotten

\* After a failed load the next one waits for RetryAfter, whatever loads were still
\* on their way (DolConfig, pool.go:105-113, 124-125).
THEOREM FailedLoadsAreSpaced == Spec => RetriesSpaced
  <1>1. ASSUME Inv, [Next]_vars, NEW c \in Callers,
               caller[c].pc = "idle", caller'[c].pc = "load", ~caller'[c].verify
        PROVE  now - failedAt >= RetryAfter
    <2>1. ~Fresh
      <3>1. \A d \in Callers : Step(d) => ~Fresh \/ caller'[c].pc # "load" \/ caller'[c].verify
        BY <1>1 DEF Inv, TypeOK, CallerRecord, Step, Recall, Reload, Verify, ReadConsts, Learn,
             LoadFailed, VerifyFailed, Return, Serve, Idle
      <3> QED BY <1>1, <3>1 DEF Next, Change, Tick, vars
    <2>2. CASE cfg.known
      BY <1>1, <2>1, <2>2, DurationsAssumption
         DEF Inv, TypeOK, Config, ConfigDated, Fresh, Trusted
    <2>3. CASE ~cfg.known
      BY <1>1, <2>3, DurationsAssumption DEF Inv, TypeOK, ConfigDated
    <2> QED BY <2>2, <2>3
  <1>2. ASSUME Inv, [Next]_vars
        PROVE  [\A c \in Callers :
                  caller[c].pc = "idle" /\ caller'[c].pc = "load" /\ ~caller'[c].verify =>
                    now - failedAt >= RetryAfter]_vars
    BY <1>1, <1>2
  <1> QED BY Invariance, <1>2, PTL DEF Spec, RetriesSpaced
=============================================================================
