------------------------------ MODULE PepBudget ------------------------------
(* dolibarr_pep_budget: the rehearsal, the load and the confirmed replacement *)
(* of a project's PEP budget, against the sgcosting endpoint, people who work *)
(* on the budget meanwhile, and answers that are lost. internal/tools/        *)
(* pepbudget.go keeps no state of its own: it decides what is sent and what   *)
(* the caller is told, and the caller decides what to send next.              *)
EXTENDS Integers, FiniteSets, Sequences

CONSTANTS
  Agents,    \* MCP callers that load the budget of one project
  Inputs,    \* what they may send: PEPBudgetInput for that project
  MaxCalls,  \* bound: calls of one agent
  MaxEdits   \* bound: manual edits and charges made in Dolibarr

ASSUME PepBudgetAssumption ==
  /\ MaxCalls \in Nat
  /\ MaxEdits \in Nat
  /\ \A in \in Inputs : in.replace \in BOOLEAN /\ in.confirm_replace \in BOOLEAN

Calls == 1 .. MaxCalls
Edits == 1 .. MaxEdits

VARIABLES
  budget,  \* the tree in Dolibarr: which call loaded it, the edits made to it
  edited,  \* manual edits and charges so far, numbered in order
  agent,   \* what each agent is doing and the last report it was shown
  call     \* each call: its input, its fate at the endpoint, its result

vars == <<budget, edited, agent, call>>

NoInput == [mode |-> "", elements |-> <<>>, replace |-> FALSE, confirm_replace |-> FALSE]

NoReport == [given |-> FALSE, edits |-> {}, at |-> 0]
Reports == [given : BOOLEAN, edits : SUBSET Edits, at : 0 .. MaxEdits]

-----------------------------------------------------------------------------
(* HandlePEPBudget up to the request.                                         *)

PEPElementColumns ==
  {"code", "parent_code", "level", "label", "chapter", "center_code", "brand_ref",
   "fk_product", "unit", "qty", "cost_unit", "price_unit", "source"}

\* Mutant of PEPUnknownColumns: every column is let through.
BugPEPUnknownColumnsNone(el) == {}

PEPUnknownColumns(el) == el.columns \ PEPElementColumns

\* A code or label of blanks is "" here; a level that is missing, not a number
\* or below 1 is 0.
ValidatePEPBudget(in) ==
  /\ in.elements # <<>>
  /\ \A i \in DOMAIN in.elements :
       LET el == in.elements[i] IN
       /\ PEPUnknownColumns(el) = {}
       /\ el.code # "" /\ el.label # ""
       /\ el.level >= 1

Mode(in) == IF in.mode = "" THEN "preview" ELSE in.mode

Accepted(in) == Mode(in) \in {"preview", "apply"} /\ ValidatePEPBudget(in)

\* Mutant of Payload: only a mode that is spelled out rehearses.
BugPayloadSpelled(in) ==
  LET dryRun == in.mode = "preview" IN
  [elements |-> in.elements, dry_run |-> dryRun, replace |-> dryRun \/ in.replace,
   confirm_replace |-> ~dryRun /\ in.confirm_replace]

\* Mutant of Payload: a false replace is left out of the body.
BugPayloadSilent(in) ==
  LET dryRun == Mode(in) = "preview" IN
  [elements |-> in.elements, dry_run |-> dryRun, replace |-> TRUE,
   confirm_replace |-> ~dryRun /\ in.confirm_replace]

\* Mutant of Payload: the rehearsal carries the caller's replace.
BugPayloadUnforced(in) ==
  LET dryRun == Mode(in) = "preview" IN
  [elements |-> in.elements, dry_run |-> dryRun, replace |-> in.replace,
   confirm_replace |-> ~dryRun /\ in.confirm_replace]

\* The body of the one POST. replace is always in it, and always true on a
\* rehearsal; confirm_replace never is.
Payload(in) ==
  LET dryRun == Mode(in) = "preview" IN
  [elements |-> in.elements, dry_run |-> dryRun, replace |-> dryRun \/ in.replace,
   confirm_replace |-> ~dryRun /\ in.confirm_replace]

Sent(a, n) == call[a][n].state = "sent"

\* A caller that does what next_step says confirms only after a report that was
\* readable and showed a conflict (the last one it was given).
Careful(a, in) == in.mode = "apply" /\ in.confirm_replace => agent[a].shown.given

Ready(a) == agent[a].pc = "idle" /\ agent[a].calls < MaxCalls

\* Invalid input is an error that costs no request.
Reject(a, in) ==
  /\ Ready(a)
  /\ ~Accepted(in)
  /\ agent' = [agent EXCEPT ![a].calls = @ + 1]
  /\ UNCHANGED <<budget, edited, call>>

Post(a, in) ==
  /\ Ready(a)
  /\ Accepted(in)
  /\ Careful(a, in)
  /\ agent' = [agent EXCEPT ![a].calls = @ + 1, ![a].pc = "waiting"]
  /\ call' = [call EXCEPT ![a][agent[a].calls + 1] =
       [input |-> in, told |-> agent[a].shown, state |-> "sent",
        report |-> NoReport, result |-> "none"]]
  /\ UNCHANGED <<budget, edited>>

-----------------------------------------------------------------------------
(* The sgcosting endpoint, as pepbudget.go and its tests describe it. A       *)
(* request is handled at any time after it was sent, or never.                *)

\* Every element above level 1 needs a parent in the same list.
Rooted(elements) ==
  \A i \in DOMAIN elements : elements[i].level > 1 =>
    \E j \in DOMAIN elements : elements[j].code = elements[i].parent

\* replace is tested before dry_run.
Refuses(p) == ~Rooted(p.elements) \/ (budget.loaded /\ ~p.replace)

Report == [given |-> budget.edits # {}, edits |-> budget.edits, at |-> edited]

Refuse(a, n) ==
  /\ Sent(a, n)
  /\ Refuses(Payload(call[a][n].input))
  /\ call' = [call EXCEPT ![a][n].state = "refused"]
  /\ UNCHANGED <<budget, edited, agent>>

Rehearse(a, n) ==
  /\ Sent(a, n)
  /\ LET p == Payload(call[a][n].input) IN ~Refuses(p) /\ p.dry_run
  /\ call' = [call EXCEPT ![a][n].state = "rehearsed", ![a][n].report = Report]
  /\ UNCHANGED <<budget, edited, agent>>

\* A load over edits or charges that nobody confirmed: 409, nothing applied.
Conflict(a, n) ==
  /\ Sent(a, n)
  /\ LET p == Payload(call[a][n].input) IN
       ~Refuses(p) /\ ~p.dry_run /\ ~p.confirm_replace
  /\ budget.edits # {}
  /\ call' = [call EXCEPT ![a][n].state = "conflict", ![a][n].report = Report]
  /\ UNCHANGED <<budget, edited, agent>>

\* The tree is replaced as a whole; columns sgcosting does not know are ignored.
Apply(a, n) ==
  /\ Sent(a, n)
  /\ LET p == Payload(call[a][n].input) IN
       ~Refuses(p) /\ ~p.dry_run /\ (budget.edits = {} \/ p.confirm_replace)
  /\ budget' = [loaded |-> TRUE, edits |-> {}, by |-> <<a, n>>]
  /\ call' = [call EXCEPT ![a][n].state = "applied"]
  /\ UNCHANGED <<edited, agent>>

Handle(a, n) == Refuse(a, n) \/ Rehearse(a, n) \/ Conflict(a, n) \/ Apply(a, n)

\* Somebody corrects the budget by hand, or charges an order to it.
Edit ==
  /\ budget.loaded
  /\ edited < MaxEdits
  /\ edited' = edited + 1
  /\ budget' = [budget EXCEPT !.edits = @ \cup {edited + 1}]
  /\ UNCHANGED <<agent, call>>

-----------------------------------------------------------------------------
(* HandlePEPBudget from the answer on.                                        *)

Fate(a) == call[a][agent[a].calls].state

\* The call ends with a result, and the caller holds on to a report.
Tell(a, result, shown) ==
  /\ call' = [call EXCEPT ![a][agent[a].calls].result = result]
  /\ agent' = [agent EXCEPT ![a].pc = "idle", ![a].shown = shown]
  /\ UNCHANGED <<budget, edited>>

\* A body that is not a JSON object is handed on as it is, and reads as a
\* rehearsal without a conflict: its next_step does not offer confirm_replace.
TellRehearsed(a) ==
  /\ agent[a].pc = "waiting"
  /\ Fate(a) = "rehearsed"
  /\ \E shown \in {call[a][agent[a].calls].report, NoReport} : Tell(a, "rehearsed", shown)

TellApplied(a) ==
  /\ agent[a].pc = "waiting"
  /\ Fate(a) = "applied"
  /\ Tell(a, "applied", NoReport)

\* Mutant of TellConflict: a report that did not arrive is an empty one.
BugTellConflictEmpty(a) ==
  /\ agent[a].pc = "waiting"
  /\ Fate(a) = "conflict"
  /\ \E shown \in {call[a][agent[a].calls].report,
                   [call[a][agent[a].calls].report EXCEPT !.edits = {}]} :
       Tell(a, "conflict", shown)

\* A 409 with its report under error.preview, or without: then the caller is
\* told not to confirm.
TellConflict(a) ==
  /\ agent[a].pc = "waiting"
  /\ Fate(a) = "conflict"
  /\ \E shown \in {call[a][agent[a].calls].report, NoReport} : Tell(a, "conflict", shown)

\* Mutant of TellFailed: any error of the API is read as a conflict.
BugTellFailedConflict(a) ==
  /\ agent[a].pc = "waiting"
  /\ Tell(a, "conflict", NoReport)

\* A refusal, a status of 500 or more, no answer, a cancelled caller: an error,
\* with the request carried out, or still on its way, or not at all.
TellFailed(a) ==
  /\ agent[a].pc = "waiting"
  /\ Tell(a, "error", agent[a].shown)

Told(a) == TellRehearsed(a) \/ TellApplied(a) \/ TellConflict(a) \/ TellFailed(a)

\* The project may have a budget already, with edits.
Init ==
  /\ edited \in 0 .. MaxEdits
  /\ \E l \in BOOLEAN :
       budget = [loaded |-> l, edits |-> IF l THEN 1 .. edited ELSE {}, by |-> <<>>]
  /\ agent = [a \in Agents |-> [pc |-> "idle", calls |-> 0, shown |-> NoReport]]
  /\ call = [a \in Agents |-> [n \in Calls |->
       [input |-> NoInput,
        told |-> NoReport, state |-> "unsent", report |-> NoReport, result |-> "none"]]]

Next ==
  \/ Edit
  \/ \E a \in Agents :
       \/ \E in \in Inputs : Reject(a, in) \/ Post(a, in)
       \/ \E n \in Calls : Handle(a, n)
       \/ Told(a)

Spec == Init /\ [][Next]_vars

-----------------------------------------------------------------------------
(* Properties.                                                                *)

States == {"unsent", "sent", "refused", "rehearsed", "conflict", "applied"}
Results == {"none", "error", "rehearsed", "conflict", "applied"}

\* Every variable has its type; the edits of a budget are edits that were made.
TypeOK ==
  /\ edited \in 0 .. MaxEdits
  /\ budget \in [loaded : BOOLEAN, edits : SUBSET Edits, by : {<<>>} \cup (Agents \X Calls)]
  /\ budget.edits \subseteq 1 .. edited
  /\ agent \in [Agents -> [pc : {"idle", "waiting"}, calls : 0 .. MaxCalls, shown : Reports]]
  /\ \A a \in Agents : agent[a].pc = "waiting" => agent[a].calls \in Calls
  /\ call \in [Agents -> [Calls ->
       [input : Inputs \cup {NoInput}, told : Reports, state : States,
        report : Reports, result : Results]]]

Applies(a, n) == Sent(a, n) /\ call'[a][n].state = "applied"

\* Omitting something never writes: a budget changes, or loses an edit, only
\* through a call whose caller spelled out mode=apply, and replace=true when
\* there was a budget, and confirm_replace=true when it carried edits or charges
\* (pepbudget.go:19-20, 69-87).
NothingByOmission ==
  [][budget'.by # budget.by \/ ~(budget.edits \subseteq budget'.edits) =>
       \E a \in Agents, n \in Calls :
         LET in == call[a][n].input IN
         /\ Applies(a, n)
         /\ in.mode = "apply"
         /\ budget.loaded => in.replace
         /\ budget.edits # {} => in.confirm_replace]_vars

\* A caller that confirms only after a report loses no edit that the report kept
\* silent: what a load destroys was listed in the report the caller had when it
\* sent the load, or was made after that report (pepbudget.go:51, 162-164).
LossesWereShown ==
  [][\A a \in Agents, n \in Calls :
       Applies(a, n) /\ budget.edits # {} =>
         /\ call[a][n].told.given
         /\ budget.edits \cap (1 .. call[a][n].told.at) \subseteq call[a][n].told.edits]_vars

\* What the caller is told is true whatever is lost or late: "applied" was
\* applied, with every column of it read; a result that says nothing was written
\* belongs to a request that wrote nothing and never will (pepbudget.go:106-132,
\* 157, 26-28).
AnswersTrue ==
  \A a \in Agents, n \in Calls :
    /\ call[a][n].result = "applied" =>
         /\ call[a][n].state = "applied"
         /\ \A i \in DOMAIN call[a][n].input.elements :
              call[a][n].input.elements[i].columns \subseteq PEPElementColumns
    /\ call[a][n].result \in {"rehearsed", "conflict"} =>
         call[a][n].state \in {"rehearsed", "conflict"}

\* The rehearsal is there for the projects that already have a budget: only the
\* elements themselves can get it refused (pepbudget.go:69-76).
RehearsalAvailable ==
  \A a \in Agents, n \in Calls :
    call[a][n].state = "refused" /\ Mode(call[a][n].input) = "preview" =>
      ~Rooted(call[a][n].input.elements)

\* A report lists every edit that was there when it was made and still is.
Complete(r) == r.at <= edited /\ budget.edits \cap (1 .. r.at) \subseteq r.edits

\* The inductive invariant of PepBudgetProofs: reports are complete, those on
\* their way, those shown and those a call was sent after; what was sent had
\* been accepted, and confirmed after a report only.
Inv ==
  /\ TypeOK
  /\ \A a \in Agents : Complete(agent[a].shown)
  /\ \A a \in Agents, n \in Calls :
       /\ Complete(call[a][n].told)
       /\ Complete(call[a][n].report)
       /\ call[a][n].state # "unsent" =>
            /\ Accepted(call[a][n].input)
            /\ Payload(call[a][n].input).confirm_replace => call[a][n].told.given
=============================================================================
