--------------------------- MODULE ProposalVersions ---------------------------
(* The version history of one proposal as internal/doldb reads it             *)
(* (proposal_versions.go): three statements, each with a snapshot of its own, *)
(* raced by freezes made through this server or in Dolibarr.                  *)
EXTENDS Integers

CONSTANTS
  Readers,     \* goroutines in listProposalVersionsUncached
  Entities,    \* Dolibarr entities
  OurEntity,   \* DOLIBARR_ENTITY
  MaxVersions  \* bound: freezes

ASSUME EntitiesAssumption == OurEntity \in Entities /\ MaxVersions \in Nat

VARIABLES
  versions,  \* llx_sgproposalversion, the rows of the proposal
  proposal,  \* llx_propal holds the proposal
  read       \* one record per goroutine

vars == <<versions, proposal, read>>

Numbers(vs) == {v.num : v \in vs}

\* sql.NullInt64 without a value.
Null == -1

\* SELECT MAX(version_num): over all entities, NULL when there is no row.
MaxNum(vs) == IF Numbers(vs) = {} THEN Null
              ELSE CHOOSE n \in Numbers(vs) : \A m \in Numbers(vs) : m <= n

\* Mutant of LiveVersionNum: a maximum of 0 is taken for no maximum.
BugLiveVersionNumZero(maxNum) == IF maxNum <= 0 THEN 0 ELSE maxNum + 1

\* Mutant of LiveVersionNum: the newest frozen number, not the next.
BugLiveVersionNumNewest(maxNum) == maxNum

LiveVersionNum(maxNum) == IF maxNum = Null THEN 0 ELSE maxNum + 1

\* ProposalVersion::nextVersionNum of the module: what the next freeze stores.
NextVersionNum(vs) == IF Numbers(vs) = {} THEN 0 ELSE MaxNum(vs) + 1

-----------------------------------------------------------------------------
(* Dolibarr.                                                                  *)

\* The live version of the proposal becomes a row, for ever.
Freeze(e) ==
  /\ proposal
  /\ NextVersionNum(versions) < MaxVersions
  /\ versions' = versions \cup {[num |-> NextVersionNum(versions), entity |-> e]}
  /\ UNCHANGED <<proposal, read>>

RemoveProposal ==
  /\ proposal
  /\ proposal' = FALSE
  /\ UNCHANGED <<versions, read>>

-----------------------------------------------------------------------------
(* The read. next, a ghost, is NextVersionNum when it began.                  *)

ReadPCs == {"idle", "begun", "listed", "found", "answered", "failed"}

Idle == [pc |-> "idle", next |-> 0, list |-> {}, live |-> 0]

Begin(r) ==
  /\ read[r].pc = "idle"
  /\ read' = [read EXCEPT ![r] =
                 [pc |-> "begun", next |-> NextVersionNum(versions), list |-> {}, live |-> 0]]
  /\ UNCHANGED <<versions, proposal>>

\* The versions come first, those of this server's entity.
ListVersions(r) ==
  /\ read[r].pc = "begun"
  /\ read' = [read EXCEPT ![r].pc = "listed",
                          ![r].list = {v \in versions : v.entity = OurEntity}]
  /\ UNCHANGED <<versions, proposal>>

FindProposal(r) ==
  /\ read[r].pc = "listed"
  /\ read' = [read EXCEPT ![r].pc = IF proposal THEN "found" ELSE "failed"]
  /\ UNCHANGED <<versions, proposal>>

\* Mutant of ReadLatest: the number is taken among the listed versions.
BugReadLatestListed(r) ==
  /\ read[r].pc = "found"
  /\ read' = [read EXCEPT ![r].pc = "answered",
       ![r].live = LiveVersionNum(MaxNum(read[r].list))]
  /\ UNCHANGED <<versions, proposal>>

ReadLatest(r) ==
  /\ read[r].pc = "found"
  /\ read' = [read EXCEPT ![r].pc = "answered", ![r].live = LiveVersionNum(MaxNum(versions))]
  /\ UNCHANGED <<versions, proposal>>

\* A statement fails: the module's table is missing, the database is away.
Fail(r) ==
  /\ read[r].pc \in {"begun", "listed", "found"}
  /\ read' = [read EXCEPT ![r].pc = "failed"]
  /\ UNCHANGED <<versions, proposal>>

Return(r) ==
  /\ read[r].pc \in {"answered", "failed"}
  /\ read' = [read EXCEPT ![r] = Idle]
  /\ UNCHANGED <<versions, proposal>>

Init ==
  /\ versions = {}
  /\ proposal = TRUE
  /\ read = [r \in Readers |-> Idle]

Read(r) ==
  \/ Begin(r)
  \/ ListVersions(r)
  \/ FindProposal(r)
  \/ ReadLatest(r)
  \/ Fail(r)
  \/ Return(r)

Next ==
  \/ \E e \in Entities : Freeze(e)
  \/ RemoveProposal
  \/ \E r \in Readers : Read(r)

Spec == Init /\ [][Next]_vars

-----------------------------------------------------------------------------
(* Properties.                                                                *)

Version == [num : Nat, entity : Entities]

\* Every variable has its type.
TypeOK ==
  /\ versions \subseteq Version
  /\ proposal \in BOOLEAN
  /\ read \in [Readers -> [pc : ReadPCs, next : Nat, list : SUBSET Version, live : Nat]]

\* No version in the answer carries the live number, or one after it, whatever
\* is frozen between the statements (proposal_versions.go:126-128, 145-147).
LiveAboveListed ==
  \A r \in Readers : read[r].pc = "answered" =>
    \A v \in read[r].list : v.num < read[r].live

\* The live number is one the next freeze would have stored at some moment of
\* the read (proposal_versions.go:46-51), whichever entities froze versions.
LiveWithinRead ==
  \A r \in Readers : read[r].pc = "answered" =>
    read[r].next <= read[r].live /\ read[r].live <= NextVersionNum(versions)

-----------------------------------------------------------------------------
(* The strengthening behind both; ProposalVersionsProofs.tla proves it.       *)

\* The numbers of the frozen versions are 0, 1, 2 and so on, without a gap.
NumbersDense == \E n \in 0 .. MaxVersions : Numbers(versions) = 0 .. n - 1

\* What a read has seen is still there.
ReadsBehind ==
  \A r \in Readers :
    /\ read[r].list \subseteq versions
    /\ read[r].next <= NextVersionNum(versions)

\* The inductive invariant.
Inv == TypeOK /\ NumbersDense /\ ReadsBehind /\ LiveAboveListed /\ LiveWithinRead
=============================================================================
