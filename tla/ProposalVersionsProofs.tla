------------------------ MODULE ProposalVersionsProofs ------------------------
(* What the version history says for any number of readers, any entities and  *)
(* any number of freezes.                                                     *)
EXTENDS ProposalVersions, TLAPS

\* Where the numbers are dense the next one is how many there are, every other
\* is below it, and MAX leads to it.
LEMMA NextOfDense ==
  ASSUME NEW vs, NEW n \in Nat, Numbers(vs) = 0 .. n - 1
  PROVE  /\ NextVersionNum(vs) = n
         /\ LiveVersionNum(MaxNum(vs)) = n
         /\ \A v \in vs : v.num < n
  <1>1. \A v \in vs : v.num \in 0 .. n - 1
    BY DEF Numbers
  <1>2. CASE n = 0
    BY <1>1, <1>2 DEF NextVersionNum, LiveVersionNum, MaxNum
  <1>3. CASE n # 0
    <2>1. n - 1 \in Numbers(vs) /\ \A m \in Numbers(vs) : m <= n - 1
      BY <1>3
    <2>2. \A k \in Numbers(vs) : (\A m \in Numbers(vs) : m <= k) => k = n - 1
      BY <2>1
    <2>3. MaxNum(vs) = n - 1
      BY <2>1, <2>2 DEF MaxNum
    <2> QED BY <1>1, <1>3, <2>1, <2>3 DEF NextVersionNum, LiveVersionNum, Null
  <1> QED BY <1>2, <1>3

\* One more version is one more number.
LEMMA NumbersOfOneMore ==
  ASSUME NEW vs, NEW w
  PROVE  Numbers(vs \cup {w}) = Numbers(vs) \cup {w.num}
  BY DEF Numbers

LEMMA InitInv == Init => Inv
  <1> SUFFICES ASSUME Init PROVE Inv
    OBVIOUS
  <1>1. TypeOK
    BY DEF Init, TypeOK, Idle, ReadPCs
  <1>2. Numbers(versions) = 0 .. 0 - 1
    BY DEF Init, Numbers
  <1>3. NumbersDense
    BY <1>2, EntitiesAssumption DEF NumbersDense
  <1>4. NextVersionNum(versions) = 0
    BY <1>2, NextOfDense
  <1>5. ReadsBehind /\ LiveAboveListed /\ LiveWithinRead
    BY <1>4 DEF Init, ReadsBehind, LiveAboveListed, LiveWithinRead, Idle
  <1> QED BY <1>1, <1>3, <1>5 DEF Inv

\* A freeze adds the next number, and the number after it becomes the next.
LEMMA FreezeInv ==
  ASSUME Inv, NEW e \in Entities, Freeze(e)
  PROVE  Inv'
  <1>1. PICK n \in 0 .. MaxVersions : Numbers(versions) = 0 .. n - 1
    BY DEF Inv, NumbersDense
  <1>2. n \in Nat /\ NextVersionNum(versions) = n /\ n < MaxVersions
    <2>1. n \in Nat
      BY <1>1, EntitiesAssumption
    <2>2. NextVersionNum(versions) = n
      BY <1>1, <2>1, NextOfDense
    <2> QED BY <2>1, <2>2 DEF Freeze
  <1>3. versions' = versions \cup {[num |-> n, entity |-> e]} /\ UNCHANGED <<proposal, read>>
    BY <1>2 DEF Freeze
  <1>4. TypeOK'
    BY <1>2, <1>3 DEF Inv, TypeOK, Version
  <1>5. Numbers(versions') = 0 .. (n + 1) - 1
    <2>1. Numbers(versions') = Numbers(versions) \cup {n}
      BY <1>3, NumbersOfOneMore
    <2> QED BY <1>1, <1>2, <2>1
  <1>6. NumbersDense'
    <2>1. n + 1 \in 0 .. MaxVersions
      BY <1>2, EntitiesAssumption
    <2> QED BY <1>5, <2>1 DEF NumbersDense
  <1>7. NextVersionNum(versions') = n + 1
    <2>1. n + 1 \in Nat
      BY <1>2
    <2> QED BY <1>5, <2>1, NextOfDense
  <1>8. ReadsBehind' /\ LiveAboveListed' /\ LiveWithinRead'
    <2>1. \A r \in Readers : read'[r] = read[r] /\ read[r].next \in Nat /\ read[r].live \in Nat
      BY <1>3 DEF Inv, TypeOK
    <2>2. ReadsBehind'
      BY <1>2, <1>3, <1>7, <2>1 DEF Inv, ReadsBehind
    <2>3. LiveAboveListed'
      BY <1>3 DEF Inv, LiveAboveListed
    <2>4. LiveWithinRead'
      BY <1>2, <1>7, <2>1 DEF Inv, LiveWithinRead
    <2> QED BY <2>2, <2>3, <2>4
  <1> QED BY <1>4, <1>6, <1>8 DEF Inv

\* A step of one reader: the versions stay, and with them the next number.
LEMMA ReadInv ==
  ASSUME Inv, NEW r \in Readers, Read(r)
  PROVE  Inv'
  <1>1. UNCHANGED <<versions, proposal>> /\ \A q \in Readers : q # r => read'[q] = read[q]
    <2>1. CASE Begin(r) \/ Return(r)
      BY <2>1 DEF Inv, TypeOK, Begin, Return
    <2>2. CASE ListVersions(r)
      BY <2>2 DEF Inv, TypeOK, ListVersions
    <2>3. CASE FindProposal(r) \/ ReadLatest(r) \/ Fail(r)
      BY <2>3 DEF Inv, TypeOK, FindProposal, ReadLatest, Fail
    <2> QED BY <2>1, <2>2, <2>3 DEF Read
  <1>2. NumbersDense'
    BY <1>1 DEF Inv, NumbersDense
  <1>3. PICK n \in 0 .. MaxVersions : Numbers(versions) = 0 .. n - 1
    BY DEF Inv, NumbersDense
  <1>4. n \in Nat
    BY <1>3, EntitiesAssumption
  <1>5. /\ NextVersionNum(versions) = n /\ NextVersionNum(versions') = n
        /\ LiveVersionNum(MaxNum(versions)) = n
        /\ \A v \in versions : v.num < n
    BY <1>1, <1>3, <1>4, NextOfDense
  <1>6. ASSUME read' \in [Readers -> [pc : ReadPCs, next : Nat, list : SUBSET Version, live : Nat]],
               read'[r].list \subseteq versions,
               read'[r].next <= n,
               read'[r].pc = "answered" => read'[r].live = n
        PROVE  Inv'
    <2>1. TypeOK'
      BY <1>1, <1>6 DEF Inv, TypeOK
    <2>2. ReadsBehind' /\ LiveAboveListed' /\ LiveWithinRead'
      BY <1>1, <1>4, <1>5, <1>6 DEF Inv, TypeOK, ReadsBehind, LiveAboveListed, LiveWithinRead
    <2> QED BY <1>2, <2>1, <2>2 DEF Inv
  <1>7. CASE Begin(r)
    <2>1. read' = [read EXCEPT ![r] = [pc |-> "begun", next |-> n, list |-> {}, live |-> 0]]
      BY <1>5, <1>7 DEF Begin
    <2> QED BY <1>4, <1>6, <2>1 DEF Inv, TypeOK, ReadPCs
  <1>8. CASE ListVersions(r)
    BY <1>4, <1>5, <1>6, <1>8 DEF Inv, TypeOK, ReadPCs, ReadsBehind, ListVersions
  <1>9. CASE FindProposal(r)
    BY <1>5, <1>6, <1>9 DEF Inv, TypeOK, ReadPCs, ReadsBehind, FindProposal
  <1>10. CASE ReadLatest(r)
    <2>1. read' = [read EXCEPT ![r].pc = "answered", ![r].live = n]
      BY <1>5, <1>10 DEF ReadLatest
    <2> QED BY <1>4, <1>5, <1>6, <2>1 DEF Inv, TypeOK, ReadPCs, ReadsBehind
  <1>11. CASE Fail(r)
    BY <1>5, <1>6, <1>11 DEF Inv, TypeOK, ReadPCs, ReadsBehind, Fail
  <1>12. CASE Return(r)
    <2>1. read' = [read EXCEPT ![r] = [pc |-> "idle", next |-> 0, list |-> {}, live |-> 0]]
      BY <1>12 DEF Return, Idle
    <2> QED BY <1>4, <1>6, <2>1 DEF Inv, TypeOK, ReadPCs
  <1> QED BY <1>7, <1>8, <1>9, <1>10, <1>11, <1>12 DEF Read

LEMMA StepInv == Inv /\ [Next]_vars => Inv'
  <1> SUFFICES ASSUME Inv, [Next]_vars PROVE Inv'
    OBVIOUS
  <1>1. ASSUME NEW e \in Entities, Freeze(e) PROVE Inv'
    BY <1>1, FreezeInv
  <1>2. CASE RemoveProposal
    BY <1>2 DEF RemoveProposal, Inv, TypeOK, NumbersDense, ReadsBehind, LiveAboveListed,
                LiveWithinRead
  <1>3. ASSUME NEW r \in Readers, Read(r) PROVE Inv'
    BY <1>3, ReadInv
  <1>4. CASE UNCHANGED vars
    BY <1>4 DEF vars, Inv, TypeOK, NumbersDense, ReadsBehind, LiveAboveListed,
                LiveWithinRead
  <1> QED BY <1>1, <1>2, <1>3, <1>4 DEF Next

\* The inductive invariant holds in every state.
THEOREM Invariance == Spec => []Inv
  BY InitInv, StepInv, PTL DEF Spec

\* Every variable keeps its type.
THEOREM VersionTypes == Spec => []TypeOK
  <1>1. Inv => TypeOK
    BY DEF Inv
  <1> QED BY Invariance, <1>1, PTL

\* The answer of dolibarr_proposal_versions never lists a version that carries
\* the live number or a later one.
THEOREM LiveIsAboveListed == Spec => []LiveAboveListed
  <1>1. Inv => LiveAboveListed
    BY DEF Inv
  <1> QED BY Invariance, <1>1, PTL

\* Its live number is what the next freeze would have stored at some moment of
\* the read.
THEOREM LiveIsWithinRead == Spec => []LiveWithinRead
  <1>1. Inv => LiveWithinRead
    BY DEF Inv
  <1> QED BY Invariance, <1>1, PTL
=============================================================================
