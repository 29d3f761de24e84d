# Verification of dolibarr-mcp

TLA+ models of dolibarr-mcp, an MCP server that reads a Dolibarr ERP from its
MySQL database and writes to it through its REST API. The models are checked on
small instances with TLC; theorems about them are proved for every value of the
constants with TLAPS.

Paths below are relative to the repository's root unless they name a `.tla` or
`.cfg` file of this directory.

## 1. The system

One process, started by an MCP client over stdio or serving HTTP. The MCP
library calls the tool handlers, possibly several at once, one goroutine each.
Nothing is persisted: a restart loses the caches and nothing else.

| Component | State | Operations |
|---|---|---|
| **Read cache** (`internal/doldb/cache.go`, `cachedRead` in `pool.go`) | entries with an expiry, a generation, the singleflight group's map | get, generation, putIfCurrent (store, evict), invalidate; lead or join a flight |
| **REST client** (`internal/dolapi/client.go`) | per call: the attempt; the `OnWrite` hook | Do (Get, Post, Put, Delete): up to 3 attempts, 1 for a POST; backoff; hook after a write's success |
| **Entity reads** (`fetch.go`, `search.go`, `contacts.go`, `proposal_versions.go` over `retry.go`, `pool.go`) | the pool's connections, per load: statements, retries, an errgroup | 10 fetches, 10 searches, contacts, versions |
| **Constants cache** (`DolConfig`, `Verify` in `pool.go`, `config_cache.go`) | the last constants, when stored, whether the last load succeeded | recall, reload, verify at startup |
| **Proposal versions** (`proposal_versions.go` in `doldb` and `tools`) | none of its own: rows of `llx_sgproposalversion` | list versions and live number; freeze |
| **PEP budget** (`tools/pepbudget.go`) | none: the tree lives in Dolibarr | preview, apply, conflict report, confirmed replacement |
| **Write tools** (`create`, `update`, `delete`, `line`, `action`, `document`, `validate`) | none | validate, map, one REST call |
| **Read tools and registry** (`get`, `search`, `contacts`, `registry`, `schema`, `output`) | none | check arguments, one read, format |
| **Mapper** (`internal/mapper`) | tables | names of fields, entities and actions |
| **Config, models, formatter** | none | environment, structs, labels |
| **Entry point** (`cmd/dolibarr-mcp`) | none | wiring, stdio or HTTP, bearer token, `/health` |

How they interact:

- A read tool calls `DB.Fetch`, `DB.Search`, ...: each is `cachedRead(key, load)`.
  `load` runs the statements of the read; a statement goes through `withRetry`
  and takes a connection from the pool. Some loads also ask `DolConfig` for the
  main currency.
- A write tool calls `Client.Do`. `main` wires `OnWrite` to
  `DB.InvalidateReads`: a status below 400 of a method other than GET empties the
  read cache before `Do` returns.
- `/health` pings the database and reports the cache's counters.
- Dolibarr is also changed by its own users, whom no hook tells of.

What is hard here, and what must hold:

- **Read cache**: an invalidation can come between any two steps of a read. The
  generation must keep a pre-write snapshot out of the cache; a caller must read
  its own writes; identical reads share one load and none waits for ever; the
  cache stays within its capacity and evicts what is oldest.
- **REST client**: answers get lost and requests arrive late. A POST must not be
  carried out twice; a success must have emptied the cache after the change; every
  call ends, and a cancelled caller does not wait for a timer.
- **Entity reads**: a statement fails, or is interrupted, at any point of it,
  beside another goroutine. No connection may be lost; an answer must be whole or
  an error; every load returns by its deadline, and loads without one that share a
  small pool must not all wait for each other.
- **Constants cache**: loads overlap and fail. What was learnt must survive an
  outage, old constants must not outlive the TTL outside one, and an outage must
  not cost a query for every call.
- **Proposal versions**: the list and the maximum are separate statements with a
  freeze possible in between, and count different entities.
- **PEP budget**: a replacement only after a report and a confirmation, while the
  budget may change between the two calls, and between the sending and the
  carrying out; a field left out must not write; an answer that is lost or cannot be
  read must not be told as "nothing to lose" or "nothing written".
- **Write tools**: the checks see the caller's names and Dolibarr gets other ones;
  nothing may be lost or made twice on the way; a failure must be told.
- **Mapper**: pure, but several names map to one field, and Go's map iteration
  decides which of them is sent.

`PROJECT.json` lists every hazard with its line and the properties that watch it.

## 2. The modules

| Module | Models | State it keeps |
|---|---|---|
| `ReadCache.tla` | the read cache, `cachedRead`, singleflight, writers seen from the cache, the clock | `gen`, `entries`, `flights`, one record per reader and writer, the database as a version number |
| `RestClient.tla` | `Client.Do` over an unreliable network | one record per call, the fate of each attempt, `db`, and when the hook ran |
| `WriteCall.tla` | the abstract promise of one REST call | phase, method, changes made, hooks run |
| `EntityRead.tla` | a load: statements, retry layer, connection pool, context | free connections, one record per load |
| `DolConfigCache.tla` | `DolConfig` and `Verify` | the remembered constants and their dates, one record per caller, the clock |
| `ProposalVersions.tla` | the version history read, raced by freezes | the version rows, one record per reader |
| `PepBudget.tla` | `dolibarr_pep_budget`, its callers and the sgcosting endpoint | the budget and its edits, one record per agent and per call |
| `FieldMapper.tla` | the mapper and the checks of a create, as operators | none |
| `WriteTools.tla` | the handlers of every write tool over `WriteCall` | one record per tool call, and the variables of `WriteCall` |
| `*Proofs.tla` | the theorems about the module of that name (`FieldMapperProofs`: lemmas for `WriteToolsProofs`) | |
| `MC*.tla`, `*.cfg` | instances for TLC | |

The `map` of `PROJECT.json` gives for each definition the lines it stands for.

### ReadCache

Every method of `readCache` holds its mutex, so each is one step; `cachedRead` is
cut where another goroutine can come between: `Hit` or `Miss` (`get`),
`ReadGeneration`, `Lead` or `Join` (`group.Do`), `LoadQuery`, `LoadReturn` or
`LoadFail`, `PutIfCurrent`, `Return`. A goroutine that joined a flight gets the
leader's value and goes on to `PutIfCurrent` with its own generation, as in the
code. `Store` and `Evict` answer a *set* of key sets to keep, because the order
of Go's map iteration breaks ties.

Abstractions. The database is a version number and an answer is the version its
first statement saw, the oldest part of it; that statements may see different
versions is not visible here. A change made by a request whose caller has given
up (`WriteError` while still "sent") and lands later is an `OutsideWrite`. Hit and
miss counters are left out: they only feed `/health`. A loader's panic is left out.

### RestClient and WriteCall

`Begin`, `Unsendable` (a body or URL that makes no request), `Send`, `NoAnswer`, `AnswerServerError`, `AnswerRefused`, `AnswerOk`,
`BackoffElapsed` and `BackoffCancelled` are the branches of the loop in `Do`;
`NextAttempt` is its `continue`. After `Send` a request belongs to the network:
it may be carried out (`Apply`) while the client waits, after it gave up, or
never, and a change may be answered by a gateway's 5xx. When the backoff's timer
and the caller's cancellation are both due, `select` may take either: both are
enabled. A further attempt under a cancelled context sends nothing (`Send` needs
a live context) but goes round the loop again (`NoAnswer`), as the code does: that
is a guard of the model, standing for `http.Client`, and no property claims it.

`WriteCall` is the promise without attempts: a POST or DELETE changes Dolibarr at most
once, a PUT at most once per attempt, a GET never; the hook runs in the step that makes a
write succeed and in no other. `KeepsPromise` is the refinement.

### EntityRead

`Plans` holds each read as its statements with what each waits for, whether it
iterates rows and consults `rows.Err()`, and whether its error ends the load. The
actions are the branches of `withRetry`, of the row loops and of the errgroup;
a statement holds a connection while it runs or iterates. `Interrupt` is the
query deadline, or the cancellation of the goroutine that leads the load; a
fatal error cancels the context of the other goroutine. A row loop ends whole, broken
off (`RowsBroken`, which only `rows.Err()` tells from the end) or with a row that cannot be
scanned (`RowUnscannable`, an error in every loop). `GiveUp` is the end of the three waits of a
statement, for a connection, an answer or the backoff, by the context.

A `setup`, chosen at the start, says which reads the loads make, how many connections
the pool has and whether anything may interrupt, so that one run covers reads alone and
loads that share a pool.

`Transient` and `Deterministic` choose freely which error the driver reports.
Rows and values are left out: a statement's result is whole, cut, absent or failed.

### DolConfigCache

`Recall` (fresh enough), `Reload` and `Verify` (to the database), `ReadConsts` (the
one statement), `Learn`, `LoadFailed`, `VerifyFailed`. Loads are not shared, so a
load that read earlier may store later; the model keeps this. The constants are
the version of `llx_const` they were read from, 0 standing for the built-in
defaults. Assumed: a load ends by `verifyTimeout` (its context carries it, and
the model's clock does not pass it) and the short sections under `DB.mu` take no
time.

### ProposalVersions

`Begin`, `ListVersions`, `FindProposal`, `ReadLatest` are the statements in the code's
order, with any number of freezes, in any entity, between them. Versions are
never deleted: the module offers no way to (`e2e_proposal_versions_test.go`
says so), and removing a proposal removes its own row only. The number a freeze
stores is the module's `nextVersionNum`, which is external and modelled from the
comments at `proposal_versions.go:46-50` and `126-128`.

### PepBudget

`HandlePEPBudget` keeps nothing: it checks (`Reject`), sends one POST (`Post`, whose
body is `Payload`) and turns the answer into a result and a `next_step`
(`TellRehearsed`, `TellApplied`, `TellConflict`, `TellFailed`). Between the two the
request belongs to the endpoint (`Refuse`, `Rehearse`, `Conflict`, `Apply`), which may
handle it after the caller was told of a failure, or never, while people edit the
budget (`Edit`). The endpoint is external: it is what the comments of `pepbudget.go` and
`pepbudget_test.go` say of it, `replace` tested before `dry_run` included.

A caller is `Careful`: it confirms only while the last thing it was told is a report
that was readable and showed a conflict, as `next_step` says; it may do anything else. A 409
without its report under `error.preview` is `NoReport`, and so is a rehearsal whose body
is no JSON object (it reads as one without a conflict). Edits are numbered, a report
is the edits it lists and the number of the last one made before it. Element values are
reduced to the columns they use and whether a code, label, level and parent are
there; texts and figures of a report are left out.

### FieldMapper and WriteTools

A Go map is a function. Where two of its keys are renamed to one, the code's result
depends on the iteration order, so `MapToDolibarr` and `MapEntityToDolibarr` are *sets*
of bodies, one for each choice; a handler sends some member (`Ask`). A value is
what the code tells apart: null, "", 0, a number, three kinds of date, a string.
`StripAutoNumberRef` and `ValidateCreate` are the checks of `tools/validate.go`.

`WriteTools` has for each tool its checks (`AcceptsCreate`, `AcceptsLine`, ...), its REST call
(`CreateCall`, `LineCall`, ...: the method, and the bodies it may have) and, where it is not
`WriteError`, what it makes of an error (`ListError`, `ContactError`, `FreezeError`). `Accepted`, `Call`
and `ErrorResult` pick the handler's, as `Register` does. `Reject` and `Ask` are the two ways of a
handler, `Success` and `Failure` the two ways back. The REST call is `WriteCall`, instantiated
(`Rest`): the promise that the run `rest` shows `RestClient` to keep, so retries and late
requests are in here without being modelled a second time.

The input schema makes the `data` of a create a required object, so that the nil map
into which `validate.go:24` would write is not an input.

Left out: paths of URLs beyond the entity, lines nested in lines, the decoding of an
answer, texts.

## 3. The runs

| Run | Question | Answer |
|---|---|---|
| `cache_safety` | Can an invalidation slip between the steps of a read? | No, for what the loading goroutine itself publishes |
| `cache_evict` | Does the cache stay within its capacity, dropping the right entry, and does every caller of a shared load get an answer? | Yes, also when the load fails |
| `cache_late_join` | Does the README's "never stored" hold for callers that join a flight? | **No**, see findings |
| `cache_lost_response` | Does a cached read never outlive this server's own change? | **No**, see findings |
| `rest` | Does `Do` implement `WriteCall` and end, or can retries and late requests duplicate a POST, or success miss an invalidation? | It does, they cannot |
| `read_all` | Does an interrupted read lose a connection or answer in part, does every load return, and can loads on a single connection block each other? | No, the second for the reads that check `rows.Err()`; every load with a deadline; no |
| `read_partial` | Are errors never cached, for the reads that do not? | **No**, see findings |
| `config_cache` | Can overlapping or failing loads keep old constants alive, lose them, or query at every call? | No |
| `versions` | Is the live number right whatever is frozen meanwhile? | Yes |
| `pep_budget` | Can a budget be written by omission, can a careful caller destroy an edit that its report kept silent, can an answer be false? | No |
| `write_tools` | Does what a tool accepted reach Dolibarr under its names, hanging from its party or project, once, and is every failure told? | Yes, with either value of a field that has two names, and but for the finding below |
| `write_unreported` | Is every failed write told as one? | **No**, see findings |

### Bounds, and why they are enough

- `cache_safety`: two readers and one writer give each pair of steps of a read and
  an invalidation in each order, and one flight with a follower; two keys and
  one slot make every store of the other key evict; two database versions, two
  invalidations and one tick let a read straddle two writes and an entry expire.
  The proofs lift the bounds.
- `cache_evict`: three keys for two slots, three ticks with a TTL of one, so that
  entries expire at different times and ties in expiry occur; two goroutines,
  one of which may follow the other's load. No writer: an invalidation only
  empties the cache.
- `rest`: two calls of two attempts, a first and a last one. The code's third
  attempt adds one like the first; calls interact only through `db`.
- `read_all`: each read alone with two connections, one for each of its goroutines; a
  proposal, of two goroutines, beside a customer on one connection, both under a
  deadline; and two proposals on one connection that nothing interrupts. Two
  attempts of a query, a first and a last one; the code's third is like the first.
  Loads interact only through the pool.
- `config_cache`: a TTL of two, a retry and a deadline of one, six ticks: a
  constant is learnt, ages, outlives an outage and is learnt again, with two
  callers overlapping. That `RetryAfter` is no longer than the TTL is an assumption
  (15 s and 5 min, `pool.go:26-30`).
- `versions`: four freezes, one more than the gaps between the steps of a read.
- `pep_budget`: two agents of two calls each, so that one rehearses and confirms while
  the other does, or has a late request in the air; two edits, one before and one
  after a report. The inputs are every load of a good tree, and rehearsals and wrong
  inputs that differ in what they cause (`SmallInputs`). The proofs lift the bounds.
- `write_tools`: one caller, since handlers share no state, and every input that the
  checks and the mapper tell apart (`SmallRequests`): up to two fields of those that
  collide, are required, are dates or belong to Dolibarr, each extrafield spelling, and
  lines. A PUT has two attempts.

Deadlock is checked except in the runs of `RestClient`, `PepBudget` and `WriteTools`,
whose calls end for good.
Symmetry is used for goroutines only, never in a run with a liveness property.

### Fairness

- `ReadCache.FairSpec`: a goroutine inside `cachedRead` keeps running. Its local
  steps always can; a load ends by the query deadline (`DB_QUERY_TIMEOUT`) or the
  driver's read timeout. Nothing is assumed of writers or the clock, and no new
  read has to begin.
- `RestClient.FairSpec`: an attempt ends by the client's 30 s timeout; a backoff by its
  timer while its caller waits, and by the cancellation once there is one. Of a timer
  under a cancelled context nothing is assumed, so `EveryCallReturns` rests on the
  `select` of `client.go:94-98`. Nothing is assumed of the network or Dolibarr.
- `EntityRead.FairSpec`: a running query ends (`DB_READ_TIMEOUT`), a backoff ends by its timer
  while the load's context lives, and an end of the context is noticed; a query deadline
  passes where there is one (`Interrupt` is enabled in no other setup). A free connection
  goes to somebody who waits for one, and nothing says to whom: `database/sql` picks any
  waiter. One load may therefore be passed over for ever while others keep taking the
  connection, and `EveryLoadReturns` is about loads with a deadline; `SomeLoadReturns` is
  what is left with `DB_QUERY_TIMEOUT=0`.

## 4. What is proved

No theorem has an assumption beyond the named `ASSUME`s of the modules: that
durations, capacities and bounds are numbers and that sets that need an element
have one. The bounds of the runs (`MaxVersion`, `MaxTime`, ...) are constants of
the theorems, so they hold for every bound.

**ReadCacheProofs.** `LedEntriesFresh` alone is not inductive: an entry's freshness
depends on the reader that stores it. `Inv` adds `SnapshotsFresh` (a leader
whose generation is still the current one holds a snapshot at least as new as
the last acknowledged write: the snapshot is taken after the generation, and an
acknowledgement moves the generation in the same step), `FlightsLed` (the flights
and the program counters agree, so only a leader publishes under its own flag)
and `PastBehind`. From it: `TypeCorrect`, `LedEntriesAreFresh`,
`ReadsSeeAcknowledgedWrites`, `LoadsAreShared`. `CacheWithinCapacity` is proved
apart: `KeptLeavesASlot` shows that whatever `Evict` may leave is smaller than
the capacity, since it drops an entry closest to expiry when no expired one
made room, and then that a store adds at most one key. `ExpiredEntriesGoFirst` builds on
that bound: a full cache that holds an expired entry has a slot once that entry is
gone, so `EvictsOldest` finds `Evict` dropping a live entry only when all are
live, and then one that expires first. It also needs `OffIsEmpty`: with `CACHE_TTL=0`
nothing is ever stored, so a miss drops nothing.

**DolConfigCacheProofs.** `Inv` dates what is remembered: a value trusted for a TTL was read
at most a deadline before it was stored, and one that is not trusted dates from a
failure. With the deadline of every load (`LoadsDated`) this gives
`OldConstantsOnlyInOutage`, although a slow load may overwrite a newer value.
`ConstantsNeverForgotten` follows because only a load that read something ever
changes the value. `FailedLoadsAreSpaced` needs that what is known dates from the last failed load
or from after it, whichever of the overlapping loads stored it. `Invariance` and `ConfigTypes` are `Inv` and `TypeOK` themselves.

**ProposalVersionsProofs.** The stored numbers are 0, 1, 2, ... without a gap
(`NumbersDense`) and what a read has seen stays (`ReadsBehind`). `NextOfDense`
computes the maximum from the first: the live number is then the
next free number when `ReadLatest` runs, hence above all that was listed
before (`LiveIsAboveListed`) and between the next numbers at the two ends of the read
(`LiveIsWithinRead`). `Invariance` and `VersionTypes` are `Inv` and `TypeOK` themselves.

**EntityReadProofs.** `Inv` joins four facts that lean on each other: types, the books of the
pool (`ConnectionsAccounted`: free connections and statements that hold one make up the
pool), that a load which is not open has no statement at work
(`NothingRunsAfterReturn`), and `PartsExplained`, why a part of an answer is missing. That the
statements in use are finitely many is inductive itself (one action adds or
removes at most one), so the loads need not be finitely many.
Every action on a statement is reduced to `Moves`, one statement of one load
gets a new state, and `StatementKeeps` says once what such a move preserves:
`ConnectionsMoved` counts, by whether the statement held a connection before and
after. `LoadKeeps` does the same for `Begin`, `Interrupt`, `Finish` and `Return`.
`CarefulReadsAnswerWhole` is `PartsExplained` for a plan that checks and returns every error.
The plans stay as they are in the code; loads, settings, the pool's
size and the number of attempts are arbitrary.

**PepBudgetProofs.** `Inv` says that every report is complete: an edit that was there
when it was made, and still is, is listed in it. That holds for reports on their
way, for the one an agent was shown and for the one it had when it sent a call, and it
survives every step: a load empties the edits and a new edit is later than every
report. `Inv` adds that what was sent had been accepted, and confirmed after a
report only. `StepOfOne` and `BudgetStep` reduce each action to what it does to one agent,
one call or the budget; `CallStep` says what a step can do to one call. From these:
`OmissionNeverWrites`, `LossesShown`, `AnswersAreTrue`, `RehearsalIsAvailable`, for any callers,
inputs and bounds. `LossesShown` rests on `Careful`, and on the endpoint as modelled.

**RestClientProofs.** `Inv` says per call that only attempts up to the current one were
sent, and the current one only once it is waiting; that a DELETE was applied at most once
and a GET never; and that the hook ran in a success only, after the change that was
answered, which no later step can touch because its request is no longer on its way. `StepOfOne`
and `MoveInv` reduce each action to the records of one call. `PostsLandOnce` follows because
a POST has a single attempt. `ClientKeepsPromise` maps each step: `SeenBegin`, `SeenFail`,
`SeenSucceed` and `SeenChange` are the abstract actions, and `ApplySeen` counts what
`WriteCall` still allows when a late request is carried out.

**WriteToolsProofs.** The proofs rest on `WriteCall`, so they hold of every call that keeps that
promise, and `ClientKeepsPromise` shows that `Client.Do` does. `TypeOK` is inductive: it ties each tool
call to its REST call (open exactly while the handler waits, idle exactly until something
accepted is sent) and both to the request, so `CallOK` is proved once per action
and `StepOfOne` keeps the other callers. `OnceOnly` is then a consequence: each request it is about
has the method POST, and a POST is allowed one change. `FailuresReported` needs one lemma,
`OnlyTwoErrorsSucceed`.

What the bodies say is proved from the mapper. **FieldMapperProofs** holds the lemmas: whatever map
iteration chooses, each name that is sent is that of a name the caller gave and has that
name's value, every given name is sent under one, and lines keep their number and
order (`Sends`, `SaysLines`, `MappedEntity`). With the renaming of dates and of a project's description
that is `NothingIsLost` (`PartCarried`). `CreatesAreAnchored` needs besides that every name the checks
take for a party or a project is renamed to the one field Dolibarr reads (`PartyNames`), and that a
field with one given name has that name's value (`ValueArrives`, `OptionArrives`). `DolibarrNumbers` needs that nothing but `ref` is renamed to `ref` (`RefName`).
They hold for any set of requests of which `WriteToolsAssumption` says that a
request with data has its parts (`HasData`), with any fields and values.

Only model-checked: the liveness properties (`EveryReadReturns`,
`EveryCallReturns`, `EveryLoadReturns`, `SomeLoadReturns`), since liveness under fairness is out of the
prover's reach. Every invariant and every action property that a passing run checks is also a
theorem of `Spec`; a run under `FairSpec` checks the same steps, with fairness added. The properties
of the runs that expect a violation are false, and stay with TLC.

## 5. Findings

Where the code does something else than a document, comment or test says. Each is
a run that TLC refutes.

1. **A joined flight publishes a pre-write answer** (`cache_late_join`). A goroutine
   misses after an invalidation, takes the new generation, joins a flight that
   queried before it, and stores the old answer under the new generation. It
   lives for a TTL. `README.md:170` says such an answer is never stored. The theorem
   `LedEntriesAreFresh` says that this is the only way: what the loading
   goroutine itself publishes is fresh.
2. **A change whose answer is lost invalidates nothing** (`cache_lost_response`). The
   hook runs on success only; `cache.go:16-18` promises that no cached read outlives
   a change this server made.
3. **An interrupted load is a success** (`read_partial`). A project drops the errors of
   its extrafields and tasks: when the deadline passes after the header was
   read, it is returned and cached as one that has none. That is the trace of the run; the
   code of the line, task and search loops has the other half of it: they do not
   consult `rows.Err()`, so rows that break off are a shorter list and no error; `contacts.go` and `proposal_versions.go` do check.
   `README.md:171` says that errors are never cached.

4. **A contact update that failed is a success** (`write_unreported`). `updateContact`
   calls `writeError` and drops the Go error it returns (`contacts.go:76-77`): for an error
   without an API status nothing is left, and the tool answers with a success whose
   result is null. `output.go:54-55` says that such errors fall back to a Go error which
   the SDK packs as a tool error.

Met while modelling, without a run of its own: a project that has only a `label` passes
`validateCreate`, although the comment beside the check says that without a `title` the
document is unusable (`validate.go:43-45`), and so does a task that has only a `title`, which
`POST /tasks` answers with 400 (`validate.go:49-52`): the mapper renames neither, and
`CreatesAnchored` claims nothing of the two. With both
`customer_id` and `socid` given, the check is content with either and map iteration may send
the empty one; `CreatesAnchored` claims the value only where one name was given. The check of an order's `tos_attached` does not see one that is spelled
`options_tos_attached` or is not a string. A DELETE that was carried out and answered with a
5xx is retried and reported as a 404. A PUT that was given up may be carried out after a
later one and overwrite it.

## 6. Not modelled

- Search filters, limits and pages, and what the rows of a read say: the count and the
  page of a search, or the header and the lines of a document, are separate statements
  outside a transaction, and may show different states. No document promises otherwise.
- Read tools, registry and schema: stateless, argument checks around one read each.
- Configuration, models and formatting: stateless and unit-tested.
- The entry point: transports and wiring belong to libraries; the wiring that
  matters, `OnWrite(db.InvalidateReads)`, is `WriteOk` of `ReadCache`.
- `Healthy`: one ping that touches no state.

## 7. Plan

Done, in this order: `ReadCache`, `RestClient` with `WriteCall`, `EntityRead`, `DolConfigCache`,
`ProposalVersions`, `PepBudget`, `FieldMapper` and `WriteTools`, each with its proofs.

Next, to extend the models:

1. An abstract read service (an answer is a version between two bounds) refined by
   `ReadCache`, whose writers are now the promise of `WriteCall` in one caller's order.
2. `RestClient` with the values a PUT writes, for the lost update of a late request.
3. `SearchPaging`: count and page as two snapshots, ties in the order across pages.

Then, to prove: the refinement of 1, step by step, in `ReadCacheProofs`.
