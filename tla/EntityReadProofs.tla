--------------------------- MODULE EntityReadProofs ---------------------------
(* What the loads guarantee for any number of goroutines, any pool, any       *)
(* settings and any limit of attempts.                                        *)
EXTENDS EntityRead, FiniteSetTheorems, TLAPS

\* The statement s of the load l becomes p, on its a-th retry, under a context
\* that has ended or not.
Moves(l, s, p, a, d) ==
  load' = [load EXCEPT ![l] =
             [pc |-> "open", read |-> load[l].read, done |-> d,
              stmt |-> [load[l].stmt EXCEPT ![s] = [pc |-> p, attempt |-> a]]]]

\* A load that is open may be asked for, and has the statements of its read.
LEMMA OpenLoad ==
  ASSUME TypeOK, NEW l \in Loads, load[l].pc # "idle"
  PROVE  /\ load[l].read \in setup.reads[l]
         /\ load[l] \in Opened(load[l].read)
         /\ load[l] = [pc |-> load[l].pc, read |-> load[l].read, done |-> load[l].done,
                       stmt |-> load[l].stmt]
         /\ load[l].done \in BOOLEAN
         /\ load[l].stmt \in [DOMAIN Plan(l) -> Statement]
  <1>1. load[l] # NoLoad
    BY DEF NoLoad
  <1>2. PICK r \in setup.reads[l] : load[l] \in Opened(r)
    BY <1>1 DEF TypeOK
  <1>3. load[l].read = r
    BY <1>2 DEF Opened
  <1> QED BY <1>2, <1>3 DEF Opened, Plan

\* Of an open load: what one of its statements is.
LEMMA OpenStatement ==
  ASSUME TypeOK, NEW l \in Loads, load[l].pc # "idle", NEW s \in Statements(l)
  PROVE  /\ s \in DOMAIN Plan(l)
         /\ load[l].stmt[s] \in Statement
         /\ load[l].stmt[s].pc \in StatementPCs
         /\ load[l].stmt[s].attempt \in 0 .. MaxQueryAttempts - 1
         /\ load[l].stmt[s] = [pc |-> load[l].stmt[s].pc, attempt |-> load[l].stmt[s].attempt]
  <1>1. load[l].stmt[s] \in Statement /\ s \in DOMAIN Plan(l)
    BY OpenLoad DEF Statements
  <1> QED BY <1>1 DEF Statement

-----------------------------------------------------------------------------
(* How a step changes a load.                                                 *)

LEMMA StatementUpdate ==
  ASSUME NEW v \in Statement, NEW p
  PROVE  [v EXCEPT !.pc = p] = [pc |-> p, attempt |-> v.attempt]
  BY DEF Statement

LEMMA StmtUpdate ==
  ASSUME NEW r, NEW v \in Opened(r), NEW n
  PROVE  [v EXCEPT !.stmt = n] = [pc |-> v.pc, read |-> v.read, done |-> v.done, stmt |-> n]
  BY DEF Opened

LEMMA DoneUpdate ==
  ASSUME NEW A, NEW B, NEW C, NEW D, NEW v \in [pc : A, read : B, done : C, stmt : D], NEW d
  PROVE  [v EXCEPT !.done = d] = [pc |-> v.pc, read |-> v.read, done |-> d, stmt |-> v.stmt]
  OBVIOUS

LEMMA BothUpdate ==
  ASSUME NEW r, NEW v \in Opened(r), NEW n, NEW d
  PROVE  [v EXCEPT !.stmt = n, !.done = d]
         = [pc |-> v.pc, read |-> v.read, done |-> d, stmt |-> n]
  <1>1. [v EXCEPT !.stmt = n, !.done = d] = [[v EXCEPT !.stmt = n] EXCEPT !.done = d]
    OBVIOUS
  <1>2. PICK w : w = [pc |-> v.pc, read |-> v.read, done |-> v.done, stmt |-> n]
    OBVIOUS
  <1>3. w \in [pc : {v.pc}, read : {v.read}, done : {v.done}, stmt : {n}]
    BY <1>2
  <1>4. [w EXCEPT !.done = d] = [pc |-> w.pc, read |-> w.read, done |-> d, stmt |-> w.stmt]
    BY <1>3, DoneUpdate
  <1>5. [w EXCEPT !.done = d] = [pc |-> v.pc, read |-> v.read, done |-> d, stmt |-> n]
    BY <1>2, <1>4
  <1> QED BY <1>1, <1>2, <1>5, StmtUpdate

LEMMA SetMoves ==
  ASSUME TypeOK, NEW l \in Loads, load[l].pc = "open", NEW s \in Statements(l), NEW p, Set(l, s, p)
  PROVE  Moves(l, s, p, load[l].stmt[s].attempt, load[l].done)
  <1>1. [load[l].stmt[s] EXCEPT !.pc = p] = [pc |-> p, attempt |-> load[l].stmt[s].attempt]
    BY OpenStatement, StatementUpdate
  <1>2. load' = [load EXCEPT ![l] = [load[l] EXCEPT !.stmt =
                   [load[l].stmt EXCEPT ![s] = [load[l].stmt[s] EXCEPT !.pc = p]]]]
    BY DEF Set
  <1>3. load[l] \in Opened(load[l].read)
    BY OpenLoad
  <1> QED BY <1>1, <1>2, <1>3, StmtUpdate DEF Moves

\* An error either ends the load or leaves its part out.
LEMMA FailMoves ==
  ASSUME TypeOK, NEW l \in Loads, load[l].pc = "open", NEW s \in Statements(l), Fail(l, s)
  PROVE  \E p \in {"failed", "none"}, d \in BOOLEAN :
           /\ p = "none" => ~Plan(l)[s].fatal
           /\ Moves(l, s, p, load[l].stmt[s].attempt, d)
  <1>1. CASE ~Plan(l)[s].fatal
    <2>1. Set(l, s, "none")
      BY <1>1 DEF Fail, Set
    <2>2. load[l].done \in BOOLEAN
      BY OpenLoad
    <2> QED BY <1>1, <2>1, <2>2, SetMoves
  <1>2. CASE Plan(l)[s].fatal
    <2>1. [load[l].stmt[s] EXCEPT !.pc = "failed"]
          = [pc |-> "failed", attempt |-> load[l].stmt[s].attempt]
      BY OpenStatement, StatementUpdate
    <2>2. PICK n : n = [load[l].stmt EXCEPT ![s] =
                          [pc |-> "failed", attempt |-> load[l].stmt[s].attempt]]
      OBVIOUS
    <2>3. load' = [load EXCEPT ![l] = [load[l] EXCEPT !.stmt = n, !.done = TRUE]]
      <3>1. load' = [load EXCEPT ![l] = [load[l] EXCEPT !.stmt =
              [load[l].stmt EXCEPT ![s] = [load[l].stmt[s] EXCEPT !.pc = "failed"]], !.done = TRUE]]
        BY <1>2 DEF Fail
      <3> QED BY <2>1, <2>2, <3>1, Zenon
    <2>4. load[l] \in Opened(load[l].read)
      BY OpenLoad
    <2>5. [load[l] EXCEPT !.stmt = n, !.done = TRUE]
          = [pc |-> load[l].pc, read |-> load[l].read, done |-> TRUE, stmt |-> n]
      BY <2>4, BothUpdate
    <2>6. load' = [load EXCEPT ![l] = [pc |-> "open", read |-> load[l].read, done |-> TRUE,
                                        stmt |-> n]]
      BY <2>3, <2>5, Zenon
    <2>7. Moves(l, s, "failed", load[l].stmt[s].attempt, TRUE)
      BY <2>2, <2>6, Zenon DEF Moves
    <2> QED BY <2>7
  <1> QED BY <1>1, <1>2

\* What such a step leaves alone.
LEMMA Moved ==
  ASSUME TypeOK, NEW l \in Loads, load[l].pc = "open", NEW s \in Statements(l),
         NEW p \in StatementPCs, NEW a \in 0 .. MaxQueryAttempts - 1, NEW d \in BOOLEAN,
         Moves(l, s, p, a, d)
  PROVE  /\ DOMAIN load' = Loads
         /\ \A k \in Loads \ {l} : load'[k] = load[k]
         /\ load'[l] \in Opened(load[l].read)
         /\ load'[l].pc = "open" /\ load'[l].read = load[l].read /\ load'[l].done = d
         /\ DOMAIN load'[l].stmt = DOMAIN load[l].stmt
         /\ load'[l].stmt[s].pc = p
         /\ \A t \in Statements(l) \ {s} : load'[l].stmt[t] = load[l].stmt[t]
  <1>1. load[l].stmt \in [DOMAIN Plan(l) -> Statement] /\ s \in DOMAIN Plan(l)
    BY OpenLoad, OpenStatement
  <1>2. PICK n : n = [load[l].stmt EXCEPT ![s] = [pc |-> p, attempt |-> a]]
    OBVIOUS
  <1>3. /\ load'[l] = [pc |-> "open", read |-> load[l].read, done |-> d, stmt |-> n]
        /\ DOMAIN load' = Loads
        /\ \A k \in Loads \ {l} : load'[k] = load[k]
    BY <1>2 DEF Moves, TypeOK
  <1>4. [pc |-> p, attempt |-> a] \in Statement
    BY DEF Statement
  <1>5. /\ n \in [DOMAIN Plan(l) -> Statement]
        /\ DOMAIN n = DOMAIN load[l].stmt
        /\ n[s] = [pc |-> p, attempt |-> a]
        /\ \A t \in Statements(l) \ {s} : n[t] = load[l].stmt[t]
    BY <1>1, <1>2, <1>4 DEF Statements
  <1>6. load'[l] \in Opened(load[l].read)
    BY <1>3, <1>5 DEF Opened, Plan
  <1> QED BY <1>3, <1>5, <1>6

-----------------------------------------------------------------------------
(* The connections.                                                           *)

LEMMA OneMoreInUse ==
  ASSUME IsFiniteSet(InUse), NEW u, u \notin InUse, InUse' = InUse \cup {u}
  PROVE  IsFiniteSet(InUse') /\ Cardinality(InUse') = Cardinality(InUse) + 1
  BY FS_AddElement

LEMMA OneLessInUse ==
  ASSUME IsFiniteSet(InUse), NEW u \in InUse, InUse' = InUse \ {u}
  PROVE  IsFiniteSet(InUse') /\ Cardinality(InUse') = Cardinality(InUse) - 1
  BY FS_RemoveElement

\* A connection is taken, given back or neither, and the free ones say so.
Accounted(before, after) ==
  \/ ~before /\ after /\ Acquire
  \/ before /\ ~after /\ Release
  \/ (before <=> after) /\ Keep

LEMMA ConnectionsMoved ==
  ASSUME TypeOK, IsFiniteSet(InUse), ConnectionsAccounted, NEW l \in Loads, NEW s \in Names,
         \A k \in Loads, t \in Names : k # l \/ t # s => (Holds(k, t)' <=> Holds(k, t)),
         Accounted(Holds(l, s), Holds(l, s)')
  PROVE  /\ setup' = setup /\ free' \in 0 .. setup.conns
         /\ IsFiniteSet(InUse)' /\ ConnectionsAccounted'
  <1>1. setup' = setup /\ setup.conns \in Nat /\ free \in 0 .. setup.conns
    BY EntityReadAssumption DEF TypeOK, Accounted, Acquire, Release, Keep
  <1>2. Cardinality(InUse) \in Nat /\ free + Cardinality(InUse) = setup.conns
    BY FS_CardinalityType DEF ConnectionsAccounted
  <1>3. <<l, s>> \in InUse <=> Holds(l, s)
    BY DEF InUse
  <1>4. InUse' = {u \in Loads \X Names : Holds(u[1], u[2])'}
    BY DEF InUse
  <1>5. ASSUME ~Holds(l, s), Holds(l, s)', Acquire
        PROVE  /\ free' \in 0 .. setup.conns
               /\ IsFiniteSet(InUse)' /\ ConnectionsAccounted'
    <2>1. InUse' = InUse \cup {<<l, s>>}
      BY <1>4, <1>5 DEF InUse
    <2>2. IsFiniteSet(InUse') /\ Cardinality(InUse') = Cardinality(InUse) + 1
      BY <1>3, <1>5, <2>1, OneMoreInUse
    <2>3. free > 0 /\ free' = free - 1
      BY <1>5 DEF Acquire
    <2> QED BY <1>1, <1>2, <2>2, <2>3 DEF ConnectionsAccounted
  <1>6. ASSUME Holds(l, s), ~Holds(l, s)', Release
        PROVE  /\ free' \in 0 .. setup.conns
               /\ IsFiniteSet(InUse)' /\ ConnectionsAccounted'
    <2>1. InUse' = InUse \ {<<l, s>>}
      BY <1>4, <1>6 DEF InUse
    <2>2. IsFiniteSet(InUse') /\ Cardinality(InUse') = Cardinality(InUse) - 1
      BY <1>3, <1>6, <2>1, OneLessInUse
    <2>3. Cardinality(InUse') \in Nat
      BY <2>2, FS_CardinalityType
    <2>4. free' = free + 1
      BY <1>6 DEF Release
    <2> QED BY <1>1, <1>2, <2>2, <2>3, <2>4 DEF ConnectionsAccounted
  <1>7. ASSUME Holds(l, s) <=> Holds(l, s)', Keep
        PROVE  /\ free' \in 0 .. setup.conns
               /\ IsFiniteSet(InUse)' /\ ConnectionsAccounted'
    <2>1. InUse' = InUse
      BY <1>4, <1>7 DEF InUse
    <2>2. free' = free
      BY <1>7 DEF Keep
    <2> QED BY <1>1, <1>2, <2>1, <2>2 DEF ConnectionsAccounted
  <1> QED BY <1>1, <1>5, <1>6, <1>7 DEF Accounted

-----------------------------------------------------------------------------
(* The invariant.                                                             *)

LEMMA NamesOfReads ==
  ASSUME TypeOK, NEW l \in Loads, load[l].pc # "idle", NEW s \in Statements(l)
  PROVE  s \in Names
  <1>1. load[l].read \in DOMAIN Plans
    BY OpenLoad, EntityReadAssumption DEF TypeOK
  <1>2. s \in DOMAIN Plans[load[l].read]
    BY OpenStatement DEF Plan
  <1> QED BY <1>1, <1>2 DEF Names

\* A step of one statement keeps the invariant when it says why a part is missing
\* and keeps the books of the pool.
LEMMA StatementKeeps ==
  ASSUME Inv, NEW l \in Loads, load[l].pc = "open", NEW s \in Statements(l),
         NEW p \in StatementPCs, NEW a \in 0 .. MaxQueryAttempts - 1, NEW d \in BOOLEAN,
         Moves(l, s, p, a, d),
         p = "cut" => ~Plan(l)[s].checked,
         p = "none" => ~Plan(l)[s].fatal,
         Accounted(Holds(l, s), p \in HoldsConn)
  PROVE  Inv'
  <1>1. TypeOK /\ s \in Names
    BY NamesOfReads DEF Inv
  <1>2. /\ DOMAIN load' = Loads
        /\ \A k \in Loads \ {l} : load'[k] = load[k]
        /\ load'[l] \in Opened(load[l].read)
        /\ load'[l].pc = "open" /\ load'[l].read = load[l].read
        /\ DOMAIN load'[l].stmt = DOMAIN load[l].stmt
        /\ load'[l].stmt[s].pc = p
        /\ \A t \in Statements(l) \ {s} : load'[l].stmt[t] = load[l].stmt[t]
    BY <1>1, Moved
  <1>3. /\ \A k \in Loads, t \in Names : k # l \/ t # s => (Holds(k, t)' <=> Holds(k, t))
        /\ Holds(l, s)' <=> p \in HoldsConn
    BY <1>2 DEF Holds, Statements
  <1>4. /\ setup' = setup /\ free' \in 0 .. setup.conns
        /\ IsFiniteSet(InUse)' /\ ConnectionsAccounted'
    <2>1. Accounted(Holds(l, s), Holds(l, s)')
      BY <1>3 DEF Accounted
    <2> QED BY <1>1, <1>3, <2>1, ConnectionsMoved DEF Inv
  <1>5. TypeOK'
    <2>1. load[l].read \in setup.reads[l]
      BY <1>1, OpenLoad
    <2> QED BY <1>1, <1>2, <1>4, <2>1 DEF TypeOK
  <1>6. NothingRunsAfterReturn'
    BY <1>2 DEF Inv, NothingRunsAfterReturn, Statements
  <1>7. PartsExplained'
    BY <1>2 DEF Inv, PartsExplained, Statements, Plan
  <1> QED BY <1>4, <1>5, <1>6, <1>7 DEF Inv

\* Of the load in which statement s is at pc.
LEMMA AtStatement ==
  ASSUME Inv, NEW l \in Loads, NEW s, NEW pc, At(l, s, pc)
  PROVE  /\ TypeOK /\ load[l].pc = "open" /\ s \in Statements(l)
         /\ load[l].stmt[s].pc = pc
         /\ load[l].stmt[s].attempt \in 0 .. MaxQueryAttempts - 1
         /\ load[l].done \in BOOLEAN
         /\ Holds(l, s) <=> pc \in HoldsConn
  <1>1. TypeOK /\ load[l].pc = "open" /\ s \in Statements(l) /\ load[l].stmt[s].pc = pc
    BY DEF Inv, At
  <1> QED BY <1>1, OpenLoad, OpenStatement DEF Holds

\* One whose turn it is holds no connection.
LEMMA DueStatement ==
  ASSUME Inv, NEW l \in Loads, NEW s, Due(l, s)
  PROVE  /\ TypeOK /\ load[l].pc = "open" /\ s \in Statements(l)
         /\ load[l].stmt[s].attempt \in 0 .. MaxQueryAttempts - 1
         /\ load[l].done \in BOOLEAN
         /\ ~Holds(l, s)
  <1>1. TypeOK /\ load[l].pc = "open" /\ s \in Statements(l)
        /\ load[l].stmt[s].pc \in {"pending", "retry"}
    BY DEF Inv, Due
  <1> QED BY <1>1, OpenLoad, OpenStatement DEF Holds, HoldsConn

\* An error, of a statement that held a connection or of one that did not.
LEMMA FailKeeps ==
  ASSUME Inv, NEW l \in Loads, load[l].pc = "open", NEW s \in Statements(l), Fail(l, s),
         Accounted(Holds(l, s), FALSE)
  PROVE  Inv'
  <1>1. TypeOK
    BY DEF Inv
  <1>2. PICK p \in {"failed", "none"}, d \in BOOLEAN :
          /\ p = "none" => ~Plan(l)[s].fatal
          /\ Moves(l, s, p, load[l].stmt[s].attempt, d)
    BY <1>1, FailMoves
  <1>3. load[l].stmt[s].attempt \in 0 .. MaxQueryAttempts - 1
    BY <1>1, OpenStatement
  <1>4. p \in StatementPCs /\ p \notin HoldsConn /\ p # "cut"
    BY DEF StatementPCs, HoldsConn, Ended
  <1>5. Accounted(Holds(l, s), p \in HoldsConn)
    BY <1>4 DEF Accounted
  <1> QED BY <1>2, <1>3, <1>4, <1>5, StatementKeeps

\* A statement that goes on, or ends without an error.
LEMMA SetKeeps ==
  ASSUME Inv, NEW l \in Loads, load[l].pc = "open", NEW s \in Statements(l),
         NEW p \in StatementPCs \ {"none"}, Set(l, s, p),
         p = "cut" => ~Plan(l)[s].checked,
         Accounted(Holds(l, s), p \in HoldsConn)
  PROVE  Inv'
  <1>1. TypeOK
    BY DEF Inv
  <1>2. Moves(l, s, p, load[l].stmt[s].attempt, load[l].done)
    BY <1>1, SetMoves
  <1>3. load[l].stmt[s].attempt \in 0 .. MaxQueryAttempts - 1 /\ load[l].done \in BOOLEAN
    BY <1>1, OpenLoad, OpenStatement
  <1> QED BY <1>2, <1>3, StatementKeeps

-----------------------------------------------------------------------------
(* The actions of a statement.                                                *)

LEMMA StartInv ==
  ASSUME Inv, NEW l \in Loads, NEW s, Start(l, s)
  PROVE  Inv'
  <1>1. Due(l, s) /\ Acquire /\ Set(l, s, "running")
    BY DEF Start
  <1>2. load[l].pc = "open" /\ s \in Statements(l) /\ ~Holds(l, s)
    BY <1>1, DueStatement
  <1>3. "running" \in StatementPCs /\ "running" \in HoldsConn
    BY DEF StatementPCs, HoldsConn
  <1>4. Accounted(Holds(l, s), "running" \in HoldsConn)
    BY <1>1, <1>2, <1>3 DEF Accounted
  <1> QED BY <1>1, <1>2, <1>3, <1>4, SetKeeps

LEMMA RememberedInv ==
  ASSUME Inv, NEW l \in Loads, Remembered(l)
  PROVE  Inv'
  <1>1. Due(l, "constants") /\ Keep /\ Set(l, "constants", "whole")
    BY DEF Remembered
  <1>2. load[l].pc = "open" /\ "constants" \in Statements(l) /\ ~Holds(l, "constants")
    BY <1>1, DueStatement
  <1>3. "whole" \in StatementPCs /\ "whole" \notin HoldsConn
    BY DEF StatementPCs, HoldsConn, Ended
  <1>4. Accounted(Holds(l, "constants"), "whole" \in HoldsConn)
    BY <1>1, <1>2, <1>3 DEF Accounted
  <1> QED BY <1>1, <1>2, <1>3, <1>4, SetKeeps

LEMMA RowReadInv ==
  ASSUME Inv, NEW l \in Loads, NEW s, RowRead(l, s)
  PROVE  Inv'
  <1>1. At(l, s, "running") /\ Release /\ Set(l, s, "whole")
    BY DEF RowRead
  <1>2. load[l].pc = "open" /\ s \in Statements(l) /\ Holds(l, s)
    BY <1>1, AtStatement DEF HoldsConn
  <1>3. "whole" \in StatementPCs /\ "whole" \notin HoldsConn
    BY DEF StatementPCs, HoldsConn, Ended
  <1>4. Accounted(Holds(l, s), "whole" \in HoldsConn)
    BY <1>1, <1>2, <1>3 DEF Accounted
  <1> QED BY <1>1, <1>2, <1>3, <1>4, SetKeeps

LEMMA RowsOpenInv ==
  ASSUME Inv, NEW l \in Loads, NEW s, RowsOpen(l, s)
  PROVE  Inv'
  <1>1. At(l, s, "running") /\ Keep /\ Set(l, s, "iterating")
    BY DEF RowsOpen
  <1>2. load[l].pc = "open" /\ s \in Statements(l) /\ Holds(l, s)
    BY <1>1, AtStatement DEF HoldsConn
  <1>3. "iterating" \in StatementPCs /\ "iterating" \in HoldsConn
    BY DEF StatementPCs, HoldsConn
  <1>4. Accounted(Holds(l, s), "iterating" \in HoldsConn)
    BY <1>1, <1>2, <1>3 DEF Accounted
  <1> QED BY <1>1, <1>2, <1>3, <1>4, SetKeeps

LEMMA RowsEndInv ==
  ASSUME Inv, NEW l \in Loads, NEW s, RowsEnd(l, s)
  PROVE  Inv'
  <1>1. At(l, s, "iterating") /\ Release /\ Set(l, s, "whole")
    BY DEF RowsEnd
  <1>2. load[l].pc = "open" /\ s \in Statements(l) /\ Holds(l, s)
    BY <1>1, AtStatement DEF HoldsConn
  <1>3. "whole" \in StatementPCs /\ "whole" \notin HoldsConn
    BY DEF StatementPCs, HoldsConn, Ended
  <1>4. Accounted(Holds(l, s), "whole" \in HoldsConn)
    BY <1>1, <1>2, <1>3 DEF Accounted
  <1> QED BY <1>1, <1>2, <1>3, <1>4, SetKeeps

\* A loop whose error nobody looks at ends as if it had come to its end.
LEMMA RowsBrokenInv ==
  ASSUME Inv, NEW l \in Loads, NEW s, RowsBroken(l, s)
  PROVE  Inv'
  <1>1. At(l, s, "iterating") /\ Release
    BY DEF RowsBroken
  <1>2. load[l].pc = "open" /\ s \in Statements(l) /\ Holds(l, s)
    BY <1>1, AtStatement DEF HoldsConn
  <1>3. CASE Plan(l)[s].checked
    <2>1. Fail(l, s) /\ Accounted(Holds(l, s), FALSE)
      BY <1>1, <1>2, <1>3 DEF RowsBroken, Accounted
    <2> QED BY <1>2, <2>1, FailKeeps
  <1>4. CASE ~Plan(l)[s].checked
    <2>1. "cut" \in StatementPCs /\ "cut" \notin HoldsConn
      BY DEF StatementPCs, HoldsConn, Ended
    <2>2. Set(l, s, "cut") /\ Accounted(Holds(l, s), "cut" \in HoldsConn)
      BY <1>1, <1>2, <1>4, <2>1 DEF RowsBroken, Accounted
    <2> QED BY <1>2, <1>4, <2>1, <2>2, SetKeeps
  <1> QED BY <1>3, <1>4

\* A query that is still running, or a loop over its rows, fails for good.
LEMMA FailRunningInv ==
  ASSUME Inv, NEW l \in Loads, NEW s, At(l, s, "running") \/ At(l, s, "iterating"),
         Release, Fail(l, s)
  PROVE  Inv'
  <1>1. load[l].pc = "open" /\ s \in Statements(l) /\ Holds(l, s)
    BY AtStatement DEF HoldsConn
  <1>2. Accounted(Holds(l, s), FALSE)
    BY <1>1 DEF Accounted
  <1> QED BY <1>1, <1>2, FailKeeps

LEMMA TransientInv ==
  ASSUME Inv, NEW l \in Loads, NEW s, Transient(l, s)
  PROVE  Inv'
  <1> DEFINE a == load[l].stmt[s].attempt
             again == a + 1 < MaxQueryAttempts /\ ~load[l].done
  <1>1. At(l, s, "running") /\ Release
    BY DEF Transient
  <1>2. /\ TypeOK /\ load[l].pc = "open" /\ s \in Statements(l) /\ Holds(l, s)
        /\ a \in 0 .. MaxQueryAttempts - 1 /\ load[l].done \in BOOLEAN
    BY <1>1, AtStatement DEF HoldsConn
  <1>3. CASE again
    <2>1. load' = [load EXCEPT ![l] = [load[l] EXCEPT !.stmt =
                     [load[l].stmt EXCEPT ![s] = [pc |-> "backoff", attempt |-> a + 1]]]]
      BY <1>3 DEF Transient
    <2>2. PICK n : n = [load[l].stmt EXCEPT ![s] = [pc |-> "backoff", attempt |-> a + 1]]
      OBVIOUS
    <2>3. Moves(l, s, "backoff", a + 1, load[l].done)
      <3>1. load[l] \in Opened(load[l].read) /\ load[l].pc = "open"
        BY <1>2, OpenLoad
      <3>2. [load[l] EXCEPT !.stmt = n]
            = [pc |-> "open", read |-> load[l].read, done |-> load[l].done, stmt |-> n]
        BY <3>1, StmtUpdate
      <3>3. load' = [load EXCEPT ![l] = [load[l] EXCEPT !.stmt = n]]
        BY <2>1, <2>2, Zenon
      <3> QED BY <2>2, <3>2, <3>3, Zenon DEF Moves
    <2>4. a + 1 \in 0 .. MaxQueryAttempts - 1
      BY <1>2, <1>3, EntityReadAssumption
    <2>5. "backoff" \in StatementPCs /\ "backoff" \notin HoldsConn
      BY DEF StatementPCs, HoldsConn, Ended
    <2>6. Accounted(Holds(l, s), "backoff" \in HoldsConn)
      BY <1>1, <1>2, <2>5 DEF Accounted
    <2> QED BY <1>2, <2>3, <2>4, <2>5, <2>6, StatementKeeps
  <1>4. CASE ~again
    BY <1>1, <1>4, FailRunningInv DEF Transient
  <1> QED BY <1>3, <1>4

LEMMA BackoffElapsedInv ==
  ASSUME Inv, NEW l \in Loads, NEW s, BackoffElapsed(l, s)
  PROVE  Inv'
  <1>1. At(l, s, "backoff") /\ Keep /\ Set(l, s, "retry")
    BY DEF BackoffElapsed
  <1>2. load[l].pc = "open" /\ s \in Statements(l) /\ ~Holds(l, s)
    BY <1>1, AtStatement DEF HoldsConn
  <1>3. "retry" \in StatementPCs /\ "retry" \notin HoldsConn
    BY DEF StatementPCs, HoldsConn
  <1>4. Accounted(Holds(l, s), "retry" \in HoldsConn)
    BY <1>1, <1>2, <1>3 DEF Accounted
  <1> QED BY <1>1, <1>2, <1>3, <1>4, SetKeeps

LEMMA GiveUpInv ==
  ASSUME Inv, NEW l \in Loads, NEW s, GiveUp(l, s)
  PROVE  Inv'
  <1>1. Fail(l, s)
    BY DEF GiveUp
  <1>2. CASE Due(l, s) /\ Keep
    <2>1. load[l].pc = "open" /\ s \in Statements(l) /\ Accounted(Holds(l, s), FALSE)
      BY <1>2, DueStatement DEF Accounted
    <2> QED BY <1>1, <2>1, FailKeeps
  <1>3. CASE At(l, s, "backoff") /\ Keep
    <2>1. load[l].pc = "open" /\ s \in Statements(l) /\ ~Holds(l, s)
      BY <1>3, AtStatement DEF HoldsConn
    <2> QED BY <1>1, <1>3, <2>1, FailKeeps DEF Accounted
  <1>4. CASE At(l, s, "running") /\ Release
    BY <1>1, <1>4, FailRunningInv
  <1> QED BY <1>2, <1>3, <1>4 DEF GiveUp

-----------------------------------------------------------------------------
(* The actions of a load.                                                     *)

\* Nothing of the pool changes when no load gains or loses a connection.
LEMMA NothingHeldChanges ==
  ASSUME TypeOK, IsFiniteSet(InUse), ConnectionsAccounted, Keep,
         \A k \in Loads, t \in Names : Holds(k, t)' <=> Holds(k, t)
  PROVE  /\ setup' = setup /\ free' = free
         /\ IsFiniteSet(InUse)' /\ ConnectionsAccounted'
  <1>1. InUse' = InUse
    BY DEF InUse
  <1> QED BY <1>1 DEF Keep, ConnectionsAccounted

\* A load that is not open runs nothing.
LEMMA ClosedHoldsNothing ==
  ASSUME Inv, NEW l \in Loads, load[l].pc # "open", NEW s
  PROVE  ~Holds(l, s)
  BY DEF Inv, NothingRunsAfterReturn, Holds, Waiting

LEMMA BeginInv ==
  ASSUME Inv, NEW l \in Loads, NEW r, Begin(l, r)
  PROVE  Inv'
  <1> DEFINE opened == [pc |-> "open", read |-> r, done |-> FALSE,
                        stmt |-> [s \in DOMAIN Plans[r] |-> [pc |-> "pending", attempt |-> 0]]]
  <1>1. /\ TypeOK /\ Keep /\ load[l].pc = "idle" /\ r \in setup.reads[l]
        /\ load' = [load EXCEPT ![l] = opened]
    BY DEF Begin, Inv
  <1>2. opened \in Opened(r)
    <2>1. [pc |-> "pending", attempt |-> 0] \in Statement
      BY EntityReadAssumption DEF Statement, StatementPCs
    <2> QED BY <2>1 DEF Opened
  <1>3. /\ DOMAIN load' = Loads
        /\ \A k \in Loads \ {l} : load'[k] = load[k]
        /\ load'[l] = opened
    BY <1>1 DEF TypeOK
  <1>4. \A s \in DOMAIN load'[l].stmt : load'[l].stmt[s].pc = "pending"
    BY <1>3
  <1>5. ASSUME NEW k \in Loads, NEW t \in Names PROVE Holds(k, t)' <=> Holds(k, t)
    <2>1. ~Holds(l, t) /\ ~Holds(l, t)'
      BY <1>1, <1>4, ClosedHoldsNothing DEF Holds, Statements, HoldsConn
    <2> QED BY <1>3, <2>1 DEF Holds, Statements
  <1>6. setup' = setup /\ free' = free /\ IsFiniteSet(InUse)' /\ ConnectionsAccounted'
    BY <1>1, <1>5, NothingHeldChanges DEF Inv
  <1>7. TypeOK'
    BY <1>1, <1>2, <1>3, <1>6 DEF TypeOK
  <1>8. NothingRunsAfterReturn'
    BY <1>3 DEF Inv, NothingRunsAfterReturn, Statements
  <1>9. PartsExplained'
    BY <1>3, <1>4 DEF Inv, PartsExplained, Statements, Plan
  <1> QED BY <1>6, <1>7, <1>8, <1>9 DEF Inv

\* The load becomes something else, and its statements stay as they are.
LEMMA LoadKeeps ==
  ASSUME Inv, NEW l \in Loads, load[l].pc = "open", Keep,
         NEW w \in Opened(load[l].read), load' = [load EXCEPT ![l] = w], w.stmt = load[l].stmt,
         w.pc # "open" => \A s \in Statements(l) : load[l].stmt[s].pc \notin Waiting,
         w.pc = "answered" =>
           \A s \in Statements(l) : load[l].stmt[s].pc \in {"whole", "cut", "none"}
  PROVE  Inv'
  <1>1. TypeOK /\ load[l].read \in setup.reads[l] /\ w.read = load[l].read
    BY OpenLoad DEF Inv, Opened
  <1>2. /\ DOMAIN load' = Loads
        /\ \A k \in Loads \ {l} : load'[k] = load[k]
        /\ load'[l] = w
    BY <1>1 DEF TypeOK
  <1>3. \A k \in Loads : load'[k].stmt = load[k].stmt /\ load'[k].read = load[k].read
    BY <1>1, <1>2
  <1>4. \A k \in Loads, t \in Names : Holds(k, t)' <=> Holds(k, t)
    BY <1>3 DEF Holds, Statements
  <1>5. setup' = setup /\ free' = free /\ IsFiniteSet(InUse)' /\ ConnectionsAccounted'
    BY <1>1, <1>4, NothingHeldChanges DEF Inv
  <1>6. TypeOK'
    BY <1>1, <1>2, <1>5 DEF TypeOK
  <1>7. NothingRunsAfterReturn'
    BY <1>2, <1>3 DEF Inv, NothingRunsAfterReturn, Statements
  <1>8. PartsExplained'
    BY <1>2, <1>3 DEF Inv, PartsExplained, Statements, Plan
  <1> QED BY <1>5, <1>6, <1>7, <1>8 DEF Inv

\* The fields of a load that a step of the load itself changes.
LEMMA PcUpdate ==
  ASSUME NEW r, NEW v \in Opened(r), NEW p
  PROVE  [v EXCEPT !.pc = p] = [pc |-> p, read |-> v.read, done |-> v.done, stmt |-> v.stmt]
  BY DEF Opened

LEMMA OpenedDoneUpdate ==
  ASSUME NEW r, NEW v \in Opened(r), NEW d
  PROVE  [v EXCEPT !.done = d] = [pc |-> v.pc, read |-> v.read, done |-> d, stmt |-> v.stmt]
  BY DEF Opened

LEMMA InterruptInv ==
  ASSUME Inv, NEW l \in Loads, Interrupt(l)
  PROVE  Inv'
  <1>1. load[l].pc = "open" /\ Keep /\ load' = [load EXCEPT ![l] = [load[l] EXCEPT !.done = TRUE]]
    BY DEF Interrupt
  <1>2. load[l] \in Opened(load[l].read)
    BY <1>1, OpenLoad DEF Inv
  <1>3. \A d : [load[l] EXCEPT !.done = d]
                 = [pc |-> load[l].pc, read |-> load[l].read, done |-> d, stmt |-> load[l].stmt]
    BY <1>2, OpenedDoneUpdate
  <1>4. PICK w : w = [load[l] EXCEPT !.done = TRUE]
    OBVIOUS
  <1>5. w \in Opened(load[l].read) /\ w.stmt = load[l].stmt /\ w.pc = "open"
    BY <1>1, <1>2, <1>3, <1>4 DEF Opened
  <1>6. load' = [load EXCEPT ![l] = w]
    BY <1>1, <1>4, Zenon
  <1> QED BY <1>1, <1>5, <1>6, LoadKeeps

\* The load returns only when each of its goroutines has.
LEMMA FinishInv ==
  ASSUME Inv, NEW l \in Loads, Finish(l)
  PROVE  Inv'
  <1>1. PICK p \in {"failed", "answered"} :
          /\ load' = [load EXCEPT ![l] = [load[l] EXCEPT !.pc = p]]
          /\ p = "answered" =>
               ~Failed(l) /\ \A s \in Statements(l) : load[l].stmt[s].pc \in Ended
    BY DEF Finish
  <1>2. /\ load[l].pc = "open" /\ Keep
        /\ \A s \in Statements(l) : load[l].stmt[s].pc \notin Waiting
    BY DEF Finish
  <1>3. load[l] \in Opened(load[l].read)
    BY <1>2, OpenLoad DEF Inv
  <1>4. [load[l] EXCEPT !.pc = p]
        = [pc |-> p, read |-> load[l].read, done |-> load[l].done, stmt |-> load[l].stmt]
    BY <1>3, PcUpdate
  <1>5. PICK w : w = [load[l] EXCEPT !.pc = p]
    OBVIOUS
  <1>6. w \in Opened(load[l].read) /\ w.stmt = load[l].stmt /\ w.pc = p
    BY <1>3, <1>4, <1>5 DEF Opened
  <1>7. load' = [load EXCEPT ![l] = w]
    BY <1>1, <1>5, Zenon
  <1>8. w.pc = "answered" =>
          \A s \in Statements(l) : load[l].stmt[s].pc \in {"whole", "cut", "none"}
    BY <1>1, <1>6 DEF Failed, Ended
  <1> QED BY <1>2, <1>6, <1>7, <1>8, LoadKeeps

LEMMA ReturnInv ==
  ASSUME Inv, NEW l \in Loads, Return(l)
  PROVE  Inv'
  <1>1. /\ TypeOK /\ Keep /\ load[l].pc # "open"
        /\ load' = [load EXCEPT ![l] = NoLoad]
    BY DEF Return, Inv
  <1>2. /\ DOMAIN load' = Loads
        /\ \A k \in Loads \ {l} : load'[k] = load[k]
        /\ load'[l] = NoLoad
    BY <1>1 DEF TypeOK
  <1>3. NoLoad.pc = "idle" /\ DOMAIN NoLoad.stmt = {}
    BY DEF NoLoad
  <1>4. ASSUME NEW k \in Loads, NEW t \in Names PROVE Holds(k, t)' <=> Holds(k, t)
    <2>1. ~Holds(l, t) /\ ~Holds(l, t)'
      BY <1>1, <1>2, <1>3, ClosedHoldsNothing DEF Holds, Statements
    <2> QED BY <1>2, <2>1 DEF Holds, Statements
  <1>5. setup' = setup /\ free' = free /\ IsFiniteSet(InUse)' /\ ConnectionsAccounted'
    BY <1>1, <1>4, NothingHeldChanges DEF Inv
  <1>6. TypeOK'
    BY <1>1, <1>2, <1>5 DEF TypeOK
  <1>7. NothingRunsAfterReturn'
    BY <1>2, <1>3 DEF Inv, NothingRunsAfterReturn, Statements
  <1>8. PartsExplained'
    BY <1>2, <1>3 DEF Inv, PartsExplained, Statements, Plan
  <1> QED BY <1>5, <1>6, <1>7, <1>8 DEF Inv

-----------------------------------------------------------------------------
(* The theorems.                                                              *)

LEMMA InitInv == Init => Inv
  <1> SUFFICES ASSUME Init PROVE Inv
    OBVIOUS
  <1>1. /\ setup \in Setups /\ free = setup.conns /\ setup.conns \in Nat
        /\ DOMAIN load = Loads /\ \A l \in Loads : load[l] = NoLoad
    BY EntityReadAssumption DEF Init
  <1>2. NoLoad.pc = "idle" /\ DOMAIN NoLoad.stmt = {}
    BY DEF NoLoad
  <1>3. \A l \in Loads : Statements(l) = {} /\ load[l].pc = "idle"
    BY <1>1, <1>2 DEF Statements
  <1>4. InUse = {}
    BY <1>3 DEF InUse, Holds
  <1> QED BY <1>1, <1>3, <1>4, FS_EmptySet
       DEF Inv, TypeOK, ConnectionsAccounted, NothingRunsAfterReturn, PartsExplained

LEMMA StutterInv == Inv /\ UNCHANGED vars => Inv'
  <1> SUFFICES ASSUME Inv, UNCHANGED vars PROVE Inv'
    OBVIOUS
  <1>1. \A k \in Loads, t \in Names : Holds(k, t)' <=> Holds(k, t)
    BY DEF vars, Holds, Statements
  <1>2. setup' = setup /\ free' = free /\ IsFiniteSet(InUse)' /\ ConnectionsAccounted'
    BY <1>1, NothingHeldChanges DEF Inv, vars, Keep
  <1> QED BY <1>2 DEF vars, Inv, TypeOK, NothingRunsAfterReturn, PartsExplained, Statements, Plan

LEMMA NextInv == Inv /\ [Next]_vars => Inv'
  <1> SUFFICES ASSUME Inv, [Next]_vars PROVE Inv'
    OBVIOUS
  <1>1. ASSUME NEW l \in Loads, NEW r \in DOMAIN Plans, Begin(l, r) PROVE Inv'
    BY <1>1, BeginInv
  <1>2. ASSUME NEW l \in Loads, NEW s \in Names, Start(l, s) PROVE Inv'
    BY <1>2, StartInv
  <1>3. ASSUME NEW l \in Loads, NEW s \in Names, RowRead(l, s) PROVE Inv'
    BY <1>3, RowReadInv
  <1>4. ASSUME NEW l \in Loads, NEW s \in Names, RowAbsent(l, s) PROVE Inv'
    BY <1>4, FailRunningInv DEF RowAbsent
  <1>5. ASSUME NEW l \in Loads, NEW s \in Names, RowsOpen(l, s) PROVE Inv'
    BY <1>5, RowsOpenInv
  <1>6. ASSUME NEW l \in Loads, NEW s \in Names, RowsEnd(l, s) PROVE Inv'
    BY <1>6, RowsEndInv
  <1>7. ASSUME NEW l \in Loads, NEW s \in Names, RowsBroken(l, s) PROVE Inv'
    BY <1>7, RowsBrokenInv
  <1>8. ASSUME NEW l \in Loads, NEW s \in Names, Transient(l, s) PROVE Inv'
    BY <1>8, TransientInv
  <1>9. ASSUME NEW l \in Loads, NEW s \in Names, Deterministic(l, s) PROVE Inv'
    BY <1>9, FailRunningInv DEF Deterministic
  <1>10. ASSUME NEW l \in Loads, NEW s \in Names, BackoffElapsed(l, s) PROVE Inv'
    BY <1>10, BackoffElapsedInv
  <1>11. ASSUME NEW l \in Loads, NEW s \in Names, GiveUp(l, s) PROVE Inv'
    BY <1>11, GiveUpInv
  <1>12. ASSUME NEW l \in Loads, NEW s \in Names, RowUnscannable(l, s) PROVE Inv'
    BY <1>12, FailRunningInv DEF RowUnscannable
  <1>13. ASSUME NEW l \in Loads, Remembered(l) \/ Finish(l) \/ Return(l) \/ Interrupt(l) PROVE Inv'
    BY <1>13, RememberedInv, FinishInv, ReturnInv, InterruptInv
  <1>14. CASE UNCHANGED vars
    BY <1>14, StutterInv
  <1> QED BY <1>1, <1>2, <1>3, <1>4, <1>5, <1>6, <1>7, <1>8, <1>9, <1>10, <1>11, <1>12, <1>13, <1>14
       DEF Next, Proceed, StartAny, BackoffEnds

\* For any loads, pool, settings and limit of attempts: types, the books of the
\* pool, goroutines that end before their load, and the reason of missing parts.
THEOREM LoadInvariant == Spec => []Inv
  BY InitInv, NextInv, PTL DEF Spec

\* No path through a statement, its retries, a broken result set or a cancelled
\* context loses a connection or gives one back twice.
THEOREM ConnectionsAreAccounted == Spec => []ConnectionsAccounted
  <1>1. Inv => ConnectionsAccounted
    BY DEF Inv
  <1> QED BY <1>1, LoadInvariant, PTL

\* A read that looks at every error answers with every part whole or not at all.
THEOREM CarefulReadsAnswerWhole == Spec => []CarefulAnswersWhole
  <1>1. Inv => CarefulAnswersWhole
    <2> SUFFICES ASSUME Inv, NEW l \in Loads, load[l].pc = "answered",
                        load[l].read \in CarefulReads, NEW s \in Statements(l)
                 PROVE  load[l].stmt[s].pc = "whole"
      BY DEF CarefulAnswersWhole
    <2>1. s \in DOMAIN Plan(l)
      BY OpenStatement DEF Inv
    <2>2. Plan(l)[s].checked /\ Plan(l)[s].fatal
      BY <2>1 DEF CarefulReads, Plan
    <2> QED BY <2>2 DEF Inv, PartsExplained
  <1> QED BY <1>1, LoadInvariant, PTL
=============================================================================
