----------------------------- MODULE EntityRead ------------------------------
(* One load of internal/doldb: the SQL statements behind a fetch, a search, a *)
(* contact list or a version list, run over the connection pool through the   *)
(* retry layer, under the context of the goroutine that leads the load.       *)
(* ReadCache.tla takes it as one LoadQuery and one LoadReturn or LoadFail.    *)
EXTENDS Integers, FiniteSets

CONSTANTS
  Loads,            \* goroutines that run a load
  Setups,           \* the settings a run explores, and who reads what under them
  MaxQueryAttempts  \* retry.go: 3

VARIABLES
  setup,  \* DB_MAX_OPEN_CONNS, whether anything interrupts a load, its reads
  free,   \* connections the pool can still hand out
  load    \* one record per goroutine: the read, its context, its statements

vars == <<setup, free, load>>

-----------------------------------------------------------------------------
(* The statements of each read. needs: what must have ended before. list: a   *)
(* result set to iterate, not one row. checked: rows.Err() is consulted after *)
(* the loop. fatal: an error of the statement is the error of the load; else  *)
(* the load goes on without that part. absent: a row may be missing.          *)

Row(needs) == [needs |-> needs, list |-> FALSE, checked |-> TRUE, fatal |-> TRUE, absent |-> TRUE]
Aggregate(needs) == [Row(needs) EXCEPT !.absent = FALSE]
Rows(needs) == [Row(needs) EXCEPT !.list = TRUE, !.absent = FALSE]
UncheckedRows(needs) == [Rows(needs) EXCEPT !.checked = FALSE]
Optional(stmt) == [stmt EXCEPT !.fatal = FALSE]

\* The Dolibarr constants, for the main currency: DolConfig answers with what it
\* remembers when they cannot be read.
Constants(needs) == Optional(Rows(needs))

\* The two goroutines of the errgroup: the header, and the lines, whose id is
\* looked up first when the proposal is asked for by ref.
ProposalById == [header |-> Row({}), lines |-> UncheckedRows({}),
                 constants |-> Constants({"header", "lines"})]
ProposalByRef == [header |-> Row({}), resolve |-> Row({}),
                  lines |-> UncheckedRows({"resolve"}),
                  constants |-> Constants({"header", "lines"})]

\* Customer and supplier orders.
Order == [header |-> Row({}), constants |-> Constants({"header"}),
          lines |-> UncheckedRows({"constants"})]

\* Extrafields and tasks are fetched with their errors dropped.
Project == [header |-> Row({}), extrafields |-> Optional(Rows({"header"})),
            tasks |-> Optional(UncheckedRows({"extrafields"}))]

\* Customers and products; tasks; warehouses, shipments and receptions.
Party == [header |-> Row({})]
Task == [header |-> Row({})]
Logistics == [header |-> Row({})]

\* Every search counts first and reads the page after: proposals, orders and
\* purchases; customers and products; projects and tasks; the stock documents.
CountThenPage == [count |-> Aggregate({}), page |-> UncheckedRows({"count"})]
DocumentSearch == CountThenPage
PartySearch == CountThenPage
ProjectSearch == CountThenPage
LogisticsSearch == CountThenPage

ContactList == [contacts |-> Rows({})]

\* Versions, then the proposal, then MAX(version_num), in this order.
VersionList == [versions |-> Rows({}), proposal |-> Row({"versions"}),
                latest |-> Aggregate({"proposal"})]

Plans == [proposal |-> ProposalById, proposalByRef |-> ProposalByRef, order |-> Order,
          project |-> Project, party |-> Party, task |-> Task, logistics |-> Logistics,
          documents |-> DocumentSearch, parties |-> PartySearch,
          projects |-> ProjectSearch, shipping |-> LogisticsSearch,
          contacts |-> ContactList, versions |-> VersionList]

ASSUME EntityReadAssumption ==
  /\ MaxQueryAttempts \in Nat \ {0}
  /\ \A s \in Setups :
       /\ s.conns \in Nat \ {0}
       /\ s.interruptible \in BOOLEAN
       /\ s.reads \in [Loads -> SUBSET DOMAIN Plans]

Plan(l) == Plans[load[l].read]
Statements(l) == DOMAIN load[l].stmt
Names == UNION {DOMAIN Plans[r] : r \in DOMAIN Plans}

-----------------------------------------------------------------------------
(* One statement: withRetry around the query, then the loop over its rows.    *)

\* What a statement can end as: its whole result, a result cut short, nothing
\* because its error was dropped, or an error that ends the load.
Ended == {"whole", "cut", "none", "failed"}
HoldsConn == {"running", "iterating"}
StatementPCs == {"pending", "backoff", "retry"} \cup HoldsConn \cup Ended

Set(l, s, pc) == load' = [load EXCEPT ![l].stmt[s].pc = pc]

\* An error the code looks at: of the load, or dropped. The first error of an
\* errgroup cancels the context its other goroutine runs under.
Fail(l, s) ==
  load' = IF Plan(l)[s].fatal
          THEN [load EXCEPT ![l].stmt[s].pc = "failed", ![l].done = TRUE]
          ELSE [load EXCEPT ![l].stmt[s].pc = "none"]

Keep == UNCHANGED <<setup, free>>
Acquire == free > 0 /\ free' = free - 1 /\ UNCHANGED setup
Release == free' = free + 1 /\ UNCHANGED setup

Failed(l) == \E s \in Statements(l) : load[l].stmt[s].pc = "failed"

\* The next thing the load's code does is s.
Due(l, s) ==
  /\ load[l].pc = "open"
  /\ s \in Statements(l)
  /\ \/ load[l].stmt[s].pc = "retry"
     \/ /\ load[l].stmt[s].pc = "pending"
        /\ ~Failed(l)
        /\ \A t \in Plan(l)[s].needs : load[l].stmt[t].pc \in Ended

\* database/sql waits for a connection, unless the context has ended.
Start(l, s) ==
  /\ Due(l, s)
  /\ ~load[l].done
  /\ Acquire
  /\ Set(l, s, "running")

\* The constants are still fresh, or the order names its currency: no query.
Remembered(l) ==
  /\ Due(l, "constants")
  /\ load[l].stmt["constants"].pc = "pending"
  /\ Set(l, "constants", "whole")
  /\ Keep

At(l, s, pc) == load[l].pc = "open" /\ s \in Statements(l) /\ load[l].stmt[s].pc = pc

RowRead(l, s) ==
  /\ At(l, s, "running") /\ ~Plan(l)[s].list
  /\ Release
  /\ Set(l, s, "whole")

RowAbsent(l, s) ==
  /\ At(l, s, "running") /\ Plan(l)[s].absent
  /\ Release
  /\ Fail(l, s)

RowsOpen(l, s) ==
  /\ At(l, s, "running") /\ Plan(l)[s].list
  /\ Set(l, s, "iterating")
  /\ Keep

RowsEnd(l, s) ==
  /\ At(l, s, "iterating")
  /\ Release
  /\ Set(l, s, "whole")

\* Mutant of RowsBroken: an error return without rows.Close().
BugRowsLeftOpen(l, s) ==
  /\ At(l, s, "iterating")
  /\ Keep
  /\ IF Plan(l)[s].checked THEN Fail(l, s) ELSE Set(l, s, "cut")

\* Mutant of RowsBroken: no loop consults rows.Err().
BugRowsErrIgnored(l, s) ==
  /\ At(l, s, "iterating")
  /\ Release
  /\ Set(l, s, "cut")

\* The connection dies, or the context ends, in the middle of the rows: Next
\* answers false as it does at the end, and only rows.Err() tells them apart.
RowsBroken(l, s) ==
  /\ At(l, s, "iterating")
  /\ Release
  /\ IF Plan(l)[s].checked THEN Fail(l, s) ELSE Set(l, s, "cut")

\* A row that does not fit what it is scanned into, in any of the loops, ends the
\* loop with an error.
RowUnscannable(l, s) ==
  /\ At(l, s, "iterating")
  /\ Release
  /\ Fail(l, s)

\* Mutant of Transient: one attempt too many.
BugTransientOneMore(l, s) ==
  /\ At(l, s, "running")
  /\ Release
  /\ IF load[l].stmt[s].attempt < MaxQueryAttempts /\ ~load[l].done
     THEN load' = [load EXCEPT ![l].stmt[s] = [pc |-> "backoff", attempt |-> @.attempt + 1]]
     ELSE Fail(l, s)

\* Mutant of Transient: retried as long as the error looks transient.
BugTransientForEver(l, s) ==
  /\ At(l, s, "running")
  /\ Release
  /\ Set(l, s, "backoff")

\* A transient error is retried while attempts and the caller last.
Transient(l, s) ==
  /\ At(l, s, "running")
  /\ Release
  /\ IF load[l].stmt[s].attempt + 1 < MaxQueryAttempts /\ ~load[l].done
     THEN load' = [load EXCEPT ![l].stmt[s] = [pc |-> "backoff", attempt |-> @.attempt + 1]]
     ELSE Fail(l, s)

\* Bad SQL, a missing table, denied credentials: never retried.
Deterministic(l, s) ==
  /\ At(l, s, "running")
  /\ Release
  /\ Fail(l, s)

BackoffElapsed(l, s) ==
  /\ At(l, s, "backoff")
  /\ Set(l, s, "retry")
  /\ Keep

\* Mutant of GiveUp: the wait before a retry is a plain sleep.
BugGiveUpSleeps(l, s) ==
  /\ load[l].done
  /\ \/ Due(l, s) /\ Keep
     \/ At(l, s, "running") /\ Release
  /\ Fail(l, s)

\* The context has ended: whoever waits, for a connection, for an answer or for
\* the backoff timer, gets its error.
GiveUp(l, s) ==
  /\ load[l].done
  /\ \/ (Due(l, s) \/ At(l, s, "backoff")) /\ Keep
     \/ At(l, s, "running") /\ Release
  /\ Fail(l, s)

-----------------------------------------------------------------------------
(* The load.                                                                  *)

NoLoad == [pc |-> "idle", read |-> "none", done |-> FALSE, stmt |-> <<>>]

Begin(l, r) ==
  /\ load[l].pc = "idle"
  /\ r \in setup.reads[l]
  /\ load' = [load EXCEPT ![l] =
       [pc |-> "open", read |-> r, done |-> FALSE,
        stmt |-> [s \in DOMAIN Plans[r] |-> [pc |-> "pending", attempt |-> 0]]]]
  /\ Keep

\* The query deadline passes, or the leader's caller cancels.
Interrupt(l) ==
  /\ setup.interruptible
  /\ load[l].pc = "open"
  /\ ~load[l].done
  /\ load' = [load EXCEPT ![l].done = TRUE]
  /\ Keep

Waiting == {"backoff", "retry"} \cup HoldsConn

\* Mutant of Finish: the first error returns, without g.Wait.
BugFinishEarly(l) ==
  /\ load[l].pc = "open"
  /\ \/ Failed(l) /\ load' = [load EXCEPT ![l].pc = "failed"]
     \/ /\ \A s \in Statements(l) : load[l].stmt[s].pc \in Ended
        /\ ~Failed(l)
        /\ load' = [load EXCEPT ![l].pc = "answered"]
  /\ Keep

\* Every goroutine of the load has ended, g.Wait included.
Finish(l) ==
  /\ load[l].pc = "open"
  /\ \A s \in Statements(l) : load[l].stmt[s].pc \notin Waiting
  /\ \/ Failed(l) /\ load' = [load EXCEPT ![l].pc = "failed"]
     \/ /\ \A s \in Statements(l) : load[l].stmt[s].pc \in Ended
        /\ ~Failed(l)
        /\ load' = [load EXCEPT ![l].pc = "answered"]
  /\ Keep

Return(l) ==
  /\ load[l].pc \in {"answered", "failed"}
  /\ load' = [load EXCEPT ![l] = NoLoad]
  /\ Keep

\* What goes on as soon as the database answers.
Proceed(l) ==
  \/ \E s \in Names :
       \/ RowRead(l, s)
       \/ RowAbsent(l, s)
       \/ RowsOpen(l, s)
       \/ RowsEnd(l, s)
       \/ RowsBroken(l, s)
       \/ RowUnscannable(l, s)
       \/ Transient(l, s)
       \/ Deterministic(l, s)
       \/ GiveUp(l, s)
  \/ Remembered(l)
  \/ Finish(l)
  \/ Return(l)

StartAny(l) == \E s \in Names : Start(l, s)
BackoffEnds(l) == \E s \in Names : BackoffElapsed(l, s)

Init ==
  /\ setup \in Setups
  /\ free = setup.conns
  /\ load = [l \in Loads |-> NoLoad]

Next == \E l \in Loads :
  \/ \E r \in DOMAIN Plans : Begin(l, r)
  \/ StartAny(l)
  \/ BackoffEnds(l)
  \/ Proceed(l)
  \/ Interrupt(l)

Spec == Init /\ [][Next]_vars

\* A query that runs ends (DB_READ_TIMEOUT), and so does a backoff; once the context
\* has ended, it alone must end the backoff. A query deadline passes, where there is
\* one (pool.go:138-147). A free connection goes to somebody who waits for it, but
\* to nobody in particular: database/sql picks any of them.
FairSpec ==
  /\ Spec
  /\ WF_vars(\E l \in Loads : StartAny(l))
  /\ \A l \in Loads :
       /\ WF_vars(Proceed(l))
       /\ WF_vars(BackoffEnds(l) /\ ~load[l].done)
       /\ WF_vars(Interrupt(l))

-----------------------------------------------------------------------------
(* Properties.                                                                *)

Holds(l, s) == s \in Statements(l) /\ load[l].stmt[s].pc \in HoldsConn

\* A load and the statement by which it holds a connection.
InUse == {u \in Loads \X Names : Holds(u[1], u[2])}

Statement == [pc : StatementPCs, attempt : 0 .. MaxQueryAttempts - 1]

\* A load of the read r, from its first statement to its return.
Opened(r) == [pc : {"open", "answered", "failed"}, read : {r}, done : BOOLEAN,
              stmt : [DOMAIN Plans[r] -> Statement]]

\* Every variable has its type; a load carries the statements of its read, and
\* only of one that its goroutine may ask for.
TypeOK ==
  /\ setup \in Setups
  /\ free \in 0 .. setup.conns
  /\ DOMAIN load = Loads
  /\ \A l \in Loads : load[l] = NoLoad \/ \E r \in setup.reads[l] : load[l] \in Opened(r)

\* No path through a statement, its retries, a broken result set or a cancelled
\* context loses a connection or gives one back twice (defer rows.Close()).
ConnectionsAccounted == free + Cardinality(InUse) = setup.conns

\* When a load returns, none of its goroutines still uses the database (g.Wait): a
\* part of Inv, without which connections could not be counted by open loads.
NothingRunsAfterReturn ==
  \A l \in Loads : load[l].pc # "open" =>
    \A s \in Statements(l) : load[l].stmt[s].pc \notin Waiting

\* Reads whose loops all consult rows.Err() and whose errors are all returned.
CarefulReads == {r \in DOMAIN Plans : \A s \in DOMAIN Plans[r] : Plans[r][s].checked /\ Plans[r][s].fatal}

\* A careful read answers with every part whole or not at all, however the
\* connection and the context fail meanwhile (contacts.go:140-142,
\* proposal_versions.go:113-115).
CarefulAnswersWhole ==
  \A l \in Loads : load[l].pc = "answered" /\ load[l].read \in CarefulReads =>
    \A s \in Statements(l) : load[l].stmt[s].pc = "whole"

\* Why a part of an answer is not whole: only where no error of the loop is looked
\* at is it cut short, and only where the error of the statement is dropped is it
\* missing. An answer comes after every part has ended, and none of them failed.
PartsExplained ==
  \A l \in Loads :
    /\ \A s \in Statements(l) :
         /\ load[l].stmt[s].pc = "cut" => ~Plan(l)[s].checked
         /\ load[l].stmt[s].pc = "none" => ~Plan(l)[s].fatal
    /\ load[l].pc = "answered" =>
         \A s \in Statements(l) : load[l].stmt[s].pc \in {"whole", "cut", "none"}

\* What every step keeps: types, the books of the pool, goroutines that end before
\* their load does, and the reason of every missing part (fetch.go:35-37,
\* retry.go:104-108, database/sql's Rows.Close).
Inv ==
  /\ TypeOK
  /\ IsFiniteSet(InUse) /\ ConnectionsAccounted
  /\ NothingRunsAfterReturn
  /\ PartsExplained

\* A load with a deadline returns, also while others keep taking the connection it
\* waits for and whatever it was doing when the deadline passed: the context reaches
\* the wait for a connection, the query and the backoff (pool.go:135-148,
\* retry.go:86-112).
EveryLoadReturns ==
  \A l \in Loads :
    (setup.interruptible /\ load[l].pc = "open") ~> (load[l].pc \in {"answered", "failed"})

\* Without a deadline (DB_QUERY_TIMEOUT=0) one load may be passed over for ever, but
\* not all of them: retries are bounded and connections come back, so while any
\* load is open, one will return.
SomeLoadReturns ==
  (\E l \in Loads : load[l].pc = "open") ~>
    (\E l \in Loads : load[l].pc \in {"answered", "failed"})

\* README.md:171 "Errors are never cached": what a load returns without an error
\* was not cut short by one and hides none. The constants are left out: DolConfig
\* promises a default when they cannot be read.
AnswersWhole ==
  \A l \in Loads : load[l].pc = "answered" =>
    \A s \in Statements(l) \ {"constants"} : load[l].stmt[s].pc = "whole"
=============================================================================
