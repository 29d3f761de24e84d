---------------------------- MODULE DolConfigCache ----------------------------
(* The Dolibarr constants that internal/doldb remembers (pool.go, DolConfig   *)
(* and Verify, over config_cache.go): read on demand, trusted for a while,    *)
(* kept through an outage. Loads are not shared, so they may overlap.         *)
EXTENDS Integers

CONSTANTS
  Callers,     \* goroutines in DolConfig or Verify
  TTL,         \* dolConfigTTL in ticks
  RetryAfter,  \* dolConfigRetryAfter
  Deadline,    \* verifyTimeout, which bounds every load
  MaxVersion,  \* bound: versions of llx_const
  MaxTime      \* bound: clock ticks

ASSUME DurationsAssumption ==
  /\ TTL \in Nat \ {0}
  /\ RetryAfter \in 1 .. TTL
  /\ Deadline \in Nat \ {0}
  /\ MaxVersion \in Nat
  /\ MaxTime \in Nat

\* defaultDolConfig: what no version of llx_const says.
Default == 0

VARIABLES
  now,       \* time.Now() in ticks
  consts,    \* the version of llx_const, 1 and up
  cfg,       \* DB.dolCfg, dolCfgAt, dolCfgOK; readAt, a ghost, is when val was read
  failedAt,  \* ghost: when a load of DolConfig last failed
  caller     \* one record per goroutine

vars == <<now, consts, cfg, failedAt, caller>>

CallerPCs == {"idle", "load", "loaded", "served", "failed"}

Idle == [pc |-> "idle", verify |-> FALSE, began |-> 0, val |-> Default, readAt |-> 0, at |-> 0]

-----------------------------------------------------------------------------
(* DolConfig and Verify. Each step that touches cfg holds DB.mu.              *)

\* Mutant of Trusted: a failed load is trusted as long as a good one.
BugTrustedSameTTL == TTL

\* How long what cfg says may be served without asking the database.
Trusted == IF cfg.ok THEN TTL ELSE RetryAfter

Fresh == cfg.known /\ now - cfg.at < Trusted

\* The caller c gets the value val, read at readAt.
Serve(c, val, readAt) ==
  caller' = [caller EXCEPT ![c] = [@ EXCEPT !.pc = "served", !.val = val,
                                            !.readAt = readAt, !.at = now]]

Recall(c) ==
  /\ caller[c].pc = "idle"
  /\ Fresh
  /\ Serve(c, cfg.val, cfg.readAt)
  /\ UNCHANGED <<now, consts, cfg, failedAt>>

\* DolConfig goes to the database when it may not serve what it knows.
Reload(c) ==
  /\ caller[c].pc = "idle"
  /\ ~Fresh
  /\ caller' = [caller EXCEPT ![c] = [Idle EXCEPT !.pc = "load", !.began = now]]
  /\ UNCHANGED <<now, consts, cfg, failedAt>>

\* Verify always goes to the database; its ping is part of the load.
Verify(c) ==
  /\ caller[c].pc = "idle"
  /\ caller' = [caller EXCEPT ![c] =
                  [Idle EXCEPT !.pc = "load", !.began = now, !.verify = TRUE]]
  /\ UNCHANGED <<now, consts, cfg, failedAt>>

\* loadDolConfig: one statement, so one version.
ReadConsts(c) ==
  /\ caller[c].pc = "load"
  /\ caller' = [caller EXCEPT ![c] =
                  [@ EXCEPT !.pc = "loaded", !.val = consts, !.readAt = now]]
  /\ UNCHANGED <<now, consts, cfg, failedAt>>

\* The load succeeded: its answer replaces whatever is remembered, even what a
\* load that began later has learnt meanwhile.
Learn(c) ==
  /\ caller[c].pc = "loaded"
  /\ cfg' = [known |-> TRUE, val |-> caller[c].val, at |-> now, ok |-> TRUE,
             readAt |-> caller[c].readAt]
  /\ Serve(c, caller[c].val, caller[c].readAt)
  /\ UNCHANGED <<now, consts, failedAt>>

\* Mutant of LoadFailed: the defaults replace what is remembered.
BugLoadFailedForgets(c) ==
  /\ caller[c].pc \in {"load", "loaded"}
  /\ ~caller[c].verify
  /\ failedAt' = now
  /\ cfg' = [cfg EXCEPT !.known = TRUE, !.at = now, !.ok = FALSE, !.val = Default]
  /\ Serve(c, Default, cfg.readAt)
  /\ UNCHANGED <<now, consts>>

\* Mutant of LoadFailed: the retry is brought forward by backdating the store.
BugLoadFailedBackdates(c) ==
  /\ caller[c].pc \in {"load", "loaded"}
  /\ ~caller[c].verify
  /\ failedAt' = now
  /\ cfg' = [cfg EXCEPT !.known = TRUE, !.at = now - TTL + RetryAfter]
  /\ Serve(c, cfg.val, cfg.readAt)
  /\ UNCHANGED <<now, consts>>

\* Mutant of LoadFailed: the failure is not dated, so that it is retried at once.
BugLoadFailedUndated(c) ==
  /\ caller[c].pc \in {"load", "loaded"}
  /\ ~caller[c].verify
  /\ failedAt' = now
  /\ cfg' = [cfg EXCEPT !.known = TRUE, !.ok = FALSE]
  /\ Serve(c, cfg.val, cfg.readAt)
  /\ UNCHANGED <<now, consts>>

\* The load failed, by an error, its deadline or its caller's cancellation:
\* what is remembered stays, and is asked for again sooner.
LoadFailed(c) ==
  /\ caller[c].pc \in {"load", "loaded"}
  /\ ~caller[c].verify
  /\ failedAt' = now
  /\ cfg' = [cfg EXCEPT !.known = TRUE, !.at = now, !.ok = FALSE]
  /\ Serve(c, cfg.val, cfg.readAt)
  /\ UNCHANGED <<now, consts>>

\* Verify returns its error and touches nothing.
VerifyFailed(c) ==
  /\ caller[c].pc \in {"load", "loaded"}
  /\ caller[c].verify
  /\ caller' = [caller EXCEPT ![c].pc = "failed"]
  /\ UNCHANGED <<now, consts, cfg, failedAt>>

Return(c) ==
  /\ caller[c].pc \in {"served", "failed"}
  /\ caller' = [caller EXCEPT ![c] = Idle]
  /\ UNCHANGED <<now, consts, cfg, failedAt>>

-----------------------------------------------------------------------------
(* An administrator changes a constant in Dolibarr; time passes.              *)

Change ==
  /\ consts < MaxVersion
  /\ consts' = consts + 1
  /\ UNCHANGED <<now, cfg, failedAt, caller>>

\* Mutant of Bounded: a load may take any time.
BugBoundedNever(c) == TRUE

\* A load ends by its deadline at the latest.
Bounded(c) == caller[c].pc \in {"load", "loaded"} => now < caller[c].began + Deadline

Tick ==
  /\ now < MaxTime
  /\ \A c \in Callers : Bounded(c)
  /\ now' = now + 1
  /\ UNCHANGED <<consts, cfg, failedAt, caller>>

Init ==
  /\ now = 0
  /\ consts = 1
  /\ cfg = [known |-> FALSE, val |-> Default, at |-> 0, ok |-> FALSE, readAt |-> 0]
  /\ failedAt = -RetryAfter
  /\ caller = [c \in Callers |-> Idle]

Step(c) ==
  \/ Recall(c)
  \/ Reload(c)
  \/ Verify(c)
  \/ ReadConsts(c)
  \/ Learn(c)
  \/ LoadFailed(c)
  \/ VerifyFailed(c)
  \/ Return(c)

Next == (\E c \in Callers : Step(c)) \/ Change \/ Tick

Spec == Init /\ [][Next]_vars

-----------------------------------------------------------------------------
(* Properties.                                                                *)

Config == [known : BOOLEAN, val : Nat, at : Nat, ok : BOOLEAN, readAt : Nat]
CallerRecord == [pc : CallerPCs, verify : BOOLEAN, began : Nat, val : Nat,
                 readAt : Nat, at : Nat]

\* Every variable has its type.
TypeOK ==
  /\ now \in Nat
  /\ consts \in Nat \ {0}
  /\ cfg \in Config
  /\ failedAt \in Int
  /\ caller \in [Callers -> CallerRecord]

\* What has been learnt once is never given up for the defaults, however loads
\* that fail and loads that succeed overlap (pool.go:99-102).
NeverForgotten == [][cfg.val # Default => cfg'.val # Default]_vars

\* A change of a constant takes effect without a restart (pool.go:23-25): what
\* a caller is served was read less than a TTL and a load's deadline ago, also
\* when a slow load has overwritten a newer value; older values, and the
\* defaults, are served only within RetryAfter of a failed load.
OldOnlyInOutage ==
  \A c \in Callers : caller[c].pc = "served" =>
    \/ caller[c].val # Default /\ caller[c].at - caller[c].readAt < TTL + Deadline
    \/ caller[c].at - failedAt < RetryAfter

\* An outage does not cost a query for every call: after a load of DolConfig has
\* failed none begins for RetryAfter, whatever slow loads end, and learn or fail,
\* meanwhile (pool.go:105-113, 124-125). Those that had begun go on, and Verify
\* always asks.
RetriesSpaced ==
  [][\A c \in Callers :
       caller[c].pc = "idle" /\ caller'[c].pc = "load" /\ ~caller'[c].verify =>
         now - failedAt >= RetryAfter]_vars

-----------------------------------------------------------------------------
(* The strengthening behind them; DolConfigCacheProofs.tla proves it.         *)

\* What is trusted was read at most a deadline before it was stored; what is
\* not trusted dates from a failure, and nothing that is known from before one.
ConfigDated ==
  /\ ~cfg.known => cfg.val = Default
  /\ cfg.ok => cfg.val # Default /\ cfg.at - cfg.readAt <= Deadline
  /\ cfg.known /\ ~cfg.ok => failedAt >= cfg.at
  /\ IF cfg.known THEN failedAt <= cfg.at ELSE failedAt <= -RetryAfter
  /\ failedAt <= now

\* A load has not outlived its deadline, and what it has read it read meanwhile.
LoadsDated ==
  \A c \in Callers :
    /\ caller[c].pc \in {"load", "loaded"} =>
         caller[c].began <= now /\ now <= caller[c].began + Deadline
    /\ caller[c].pc = "loaded" =>
         caller[c].val # Default /\ caller[c].began <= caller[c].readAt

\* The inductive invariant.
Inv == TypeOK /\ ConfigDated /\ LoadsDated /\ OldOnlyInOutage
=============================================================================
