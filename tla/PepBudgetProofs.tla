--------------------------- MODULE PepBudgetProofs ----------------------------
(* What PepBudget guarantees for any number of callers, any inputs and any    *)
(* bounds.                                                                    *)
EXTENDS PepBudget, TLAPS

AgentRecord == [pc : {"idle", "waiting"}, calls : 0 .. MaxCalls, shown : Reports]
CallRecord == [input : Inputs \cup {NoInput}, told : Reports, state : States,
               report : Reports, result : Results]

\* What the invariant says of an agent and of a call.
AgentInv(g) == g \in AgentRecord /\ (g.pc = "waiting" => g.calls \in Calls) /\ Complete(g.shown)
CallInv(k) ==
  /\ k \in CallRecord
  /\ Complete(k.told)
  /\ Complete(k.report)
  /\ k.state # "unsent" =>
       /\ Accepted(k.input)
       /\ Payload(k.input).confirm_replace => k.told.given
BudgetInv ==
  /\ edited \in 0 .. MaxEdits
  /\ budget \in [loaded : BOOLEAN, edits : SUBSET Edits, by : {<<>>} \cup (Agents \X Calls)]
  /\ budget.edits \subseteq 1 .. edited

Parts ==
  /\ BudgetInv
  /\ agent \in [Agents -> AgentRecord]
  /\ call \in [Agents -> [Calls -> CallRecord]]
  /\ \A a \in Agents : AgentInv(agent[a])
  /\ \A a \in Agents, n \in Calls : CallInv(call[a][n])

\* Inv is what it says of the budget, of each agent and of each call.
LEMMA InvParts == Inv <=> Parts
  BY DEF Inv, TypeOK, Parts, BudgetInv, AgentInv, CallInv, AgentRecord, CallRecord

LEMMA InvPartsNext == Inv' <=> Parts'
  BY InvParts, PTL

\* A report that was complete stays so when no edit up to now is added.
LEMMA StillComplete ==
  ASSUME edited \in Nat, edited' \in Nat, edited <= edited',
         budget'.edits \cap (1 .. edited) \subseteq budget.edits,
         NEW r \in Reports, Complete(r)
  PROVE  Complete(r)'
  BY PepBudgetAssumption DEF Complete, Reports

\* A step that only changes what agent a does, with a complete report to hold on
\* to, and call n of a, keeps the invariant.
LEMMA StepOfOne ==
  ASSUME Inv, UNCHANGED <<budget, edited>>, NEW a \in Agents,
         NEW g \in AgentRecord, AgentInv(g), agent' = [agent EXCEPT ![a] = g],
         NEW n \in Calls, NEW k \in CallRecord, CallInv(k),
         call' = [call EXCEPT ![a][n] = k]
  PROVE  Inv'
  <1>1. Parts
    BY InvParts
  <1>2. BudgetInv'
    BY <1>1 DEF Parts, BudgetInv
  <1>3. /\ agent' \in [Agents -> AgentRecord]
        /\ call' \in [Agents -> [Calls -> CallRecord]]
    BY <1>1 DEF Parts
  <1>4. \A b \in Agents : AgentInv(agent[b])'
    BY <1>1 DEF Parts, AgentInv, Complete
  <1>5. \A b \in Agents, m \in Calls : CallInv(call[b][m])'
    BY <1>1 DEF Parts, CallInv, Complete
  <1> QED BY <1>2, <1>3, <1>4, <1>5, InvPartsNext DEF Parts

LEMMA InitInv == Init => Inv
  <1> SUFFICES ASSUME Init PROVE Parts
    BY InvParts
  <1>1. BudgetInv
    BY PepBudgetAssumption DEF Init, BudgetInv, Edits
  <1>2. NoReport \in Reports /\ Complete(NoReport)
    BY <1>1, PepBudgetAssumption DEF NoReport, Reports, Complete, BudgetInv
  <1> DEFINE g == [pc |-> "idle", calls |-> 0, shown |-> NoReport]
             k == [input |-> NoInput, told |-> NoReport, state |-> "unsent",
                   report |-> NoReport, result |-> "none"]
  <1>3. g \in AgentRecord /\ AgentInv(g)
    BY <1>2, PepBudgetAssumption DEF AgentRecord, AgentInv
  <1>4. k \in CallRecord /\ CallInv(k)
    BY <1>2 DEF CallRecord, CallInv, States, Results
  <1>5. /\ agent = [a \in Agents |-> g]
        /\ call = [a \in Agents |-> [n \in Calls |-> k]]
    BY DEF Init
  <1> HIDE DEF g, k
  <1> QED BY <1>1, <1>3, <1>4, <1>5 DEF Parts

\* Where nothing happens to a call, any call will do for the step.
LEMMA RejectInv ==
  ASSUME Inv, NEW a \in Agents, NEW in \in Inputs, Reject(a, in)
  PROVE  Inv'
  <1> DEFINE g == [agent[a] EXCEPT !.calls = @ + 1]
             n == agent[a].calls + 1
  <1>1. Parts
    BY InvParts
  <1>2. n \in Calls
    BY <1>1, PepBudgetAssumption DEF Parts, AgentRecord, Calls, Reject, Ready
  <1>3. g \in AgentRecord /\ AgentInv(g)
    BY <1>1, PepBudgetAssumption DEF Parts, AgentInv, AgentRecord, Reject, Ready
  <1>4. agent' = [agent EXCEPT ![a] = g]
    BY DEF Reject
  <1>5. call[a][n] \in CallRecord /\ CallInv(call[a][n])
    BY <1>1, <1>2 DEF Parts
  <1>6. call' = [call EXCEPT ![a][n] = call[a][n]]
    BY <1>1, <1>2 DEF Parts, Reject
  <1> HIDE DEF g, n
  <1> QED BY <1>2, <1>3, <1>4, <1>5, <1>6, StepOfOne DEF Reject

\* What is sent has been accepted, by a caller that confirms after a report only.
LEMMA PostInv ==
  ASSUME Inv, NEW a \in Agents, NEW in \in Inputs, Post(a, in)
  PROVE  Inv'
  <1> DEFINE g == [agent[a] EXCEPT !.calls = @ + 1, !.pc = "waiting"]
             n == agent[a].calls + 1
             k == [input |-> in, told |-> agent[a].shown, state |-> "sent",
                   report |-> NoReport, result |-> "none"]
  <1>1. Parts
    BY InvParts
  <1>2. n \in Calls
    BY <1>1, PepBudgetAssumption DEF Parts, AgentRecord, Calls, Post, Ready
  <1>3. g \in AgentRecord /\ AgentInv(g)
    BY <1>1, PepBudgetAssumption DEF Parts, AgentInv, AgentRecord, Calls, Post, Ready
  <1>4. agent' = [agent EXCEPT ![a] = g] /\ call' = [call EXCEPT ![a][n] = k]
    BY <1>1 DEF Parts, AgentRecord, Post
  <1>5. k \in CallRecord
    BY <1>1, PepBudgetAssumption
       DEF Parts, AgentRecord, CallRecord, NoReport, Reports, States, Results
  <1>6. Complete(agent[a].shown) /\ Complete(NoReport)
    BY <1>1 DEF Parts, AgentInv, BudgetInv, Complete, NoReport
  <1>7. Payload(in).confirm_replace => in.mode = "apply" /\ in.confirm_replace
    BY PepBudgetAssumption DEF Payload, Mode, Accepted, Post
  <1>8. CallInv(k)
    BY <1>5, <1>6, <1>7 DEF CallInv, Post, Careful
  <1> HIDE DEF g, n, k
  <1> QED BY <1>2, <1>3, <1>4, <1>5, <1>8, StepOfOne DEF Post

\* A call after it was answered, and after its result was told.
Answered(k, s, r) == [k EXCEPT !.state = s, !.report = r]
Resulted(k, result) == [k EXCEPT !.result = result]

LEMMA AnsweredFields ==
  ASSUME NEW k \in CallRecord, NEW s \in States, NEW r \in Reports
  PROVE  /\ Answered(k, s, r) \in CallRecord
         /\ Answered(k, s, r).input = k.input
         /\ Answered(k, s, r).told = k.told
         /\ Answered(k, s, r).state = s
         /\ Answered(k, s, r).report = r
         /\ Answered(k, s, r).result = k.result
  BY DEF Answered, CallRecord

LEMMA ResultedFields ==
  ASSUME NEW k \in CallRecord, NEW result
  PROVE  Resulted(k, result) = [input |-> k.input, told |-> k.told, state |-> k.state,
                                report |-> k.report, result |-> result]
  BY DEF Resulted, CallRecord

\* A request is answered: its fate is settled, with a complete report.
LEMMA AnswerInv ==
  ASSUME Inv, NEW a \in Agents, NEW n \in Calls, Sent(a, n),
         NEW s \in States, NEW r \in Reports, Complete(r),
         call' = [call EXCEPT ![a][n] = Answered(call[a][n], s, r)],
         UNCHANGED <<budget, edited, agent>>
  PROVE  Inv'
  <1> DEFINE k == Answered(call[a][n], s, r)
  <1>1. Parts
    BY InvParts
  <1>2. call[a][n] \in CallRecord
    BY <1>1 DEF Parts
  <1>3. CallInv(k)
    BY <1>1, <1>2, AnsweredFields DEF Parts, CallInv, Sent
  <1>4. agent[a] \in AgentRecord /\ AgentInv(agent[a])
    BY <1>1 DEF Parts
  <1>5. agent' = [agent EXCEPT ![a] = agent[a]]
    BY <1>1 DEF Parts
  <1>6. k \in CallRecord
    BY <1>3 DEF CallInv
  <1>7. call' = [call EXCEPT ![a][n] = k]
    OBVIOUS
  <1> HIDE DEF k
  <1> QED BY <1>3, <1>4, <1>5, <1>6, <1>7, StepOfOne

\* What the endpoint reports lists every edit of the budget.
LEMMA ReportComplete ==
  ASSUME Inv
  PROVE  Report \in Reports /\ Complete(Report)
  BY InvParts, PepBudgetAssumption DEF Parts, BudgetInv, Report, Reports, Complete

LEMMA RefuseInv ==
  ASSUME Inv, NEW a \in Agents, NEW n \in Calls, Refuse(a, n)
  PROVE  Inv'
  <1>1. call[a][n] \in CallRecord /\ Complete(call[a][n].report)
    BY InvParts DEF Parts, CallInv
  <1>2. call' = [call EXCEPT ![a][n] = Answered(call[a][n], "refused", call[a][n].report)]
    <2>1. [call[a][n] EXCEPT !.state = "refused"] =
            Answered(call[a][n], "refused", call[a][n].report)
      BY <1>1 DEF CallRecord, Answered
    <2>2. call' = [call EXCEPT ![a][n] = [call[a][n] EXCEPT !.state = "refused"]]
      BY InvParts DEF Parts, Refuse
    <2> QED BY <2>1, <2>2
  <1>3. call[a][n].report \in Reports
    BY <1>1 DEF CallRecord
  <1> QED BY <1>1, <1>2, <1>3, AnswerInv DEF Refuse, States

LEMMA RehearseInv ==
  ASSUME Inv, NEW a \in Agents, NEW n \in Calls, Rehearse(a, n)
  PROVE  Inv'
  <1>1. call' = [call EXCEPT ![a][n] = Answered(call[a][n], "rehearsed", Report)]
    BY InvParts DEF Parts, Rehearse, Answered
  <1> QED BY <1>1, ReportComplete, AnswerInv DEF Rehearse, States

LEMMA ConflictInv ==
  ASSUME Inv, NEW a \in Agents, NEW n \in Calls, Conflict(a, n)
  PROVE  Inv'
  <1>1. call' = [call EXCEPT ![a][n] = Answered(call[a][n], "conflict", Report)]
    BY InvParts DEF Parts, Conflict, Answered
  <1> QED BY <1>1, ReportComplete, AnswerInv DEF Conflict, States

\* A result is told: the caller holds on to a complete report.
LEMMA TellInv ==
  ASSUME Inv, NEW a \in Agents, agent[a].pc = "waiting", NEW result \in Results,
         NEW shown \in Reports, Complete(shown), Tell(a, result, shown)
  PROVE  Inv'
  <1> DEFINE n == agent[a].calls
             g == [agent[a] EXCEPT !.pc = "idle", !.shown = shown]
             k == Resulted(call[a][n], result)
  <1>1. Parts
    BY InvParts
  <1>2. n \in Calls
    BY <1>1 DEF Parts, AgentInv
  <1>3. g \in AgentRecord /\ AgentInv(g)
    BY <1>1 DEF Parts, AgentRecord, AgentInv
  <1>4. agent' = [agent EXCEPT ![a] = g]
    BY <1>1 DEF Parts, AgentRecord, Tell
  <1>5. k \in CallRecord
    BY <1>1, <1>2, ResultedFields DEF Parts, CallRecord
  <1>6. CallInv(k)
    BY <1>1, <1>2, <1>5, ResultedFields DEF Parts, CallInv
  <1>7. call' = [call EXCEPT ![a][n] = k]
    BY <1>1, <1>2 DEF Parts, Tell, Resulted
  <1>8. UNCHANGED <<budget, edited>>
    BY DEF Tell
  <1> HIDE DEF n, g, k
  <1> QED BY <1>2, <1>3, <1>4, <1>5, <1>6, <1>7, <1>8, StepOfOne

LEMMA ToldInv ==
  ASSUME Inv, NEW a \in Agents, Told(a)
  PROVE  Inv'
  <1>1. agent[a].pc = "waiting"
    BY DEF Told, TellRehearsed, TellApplied, TellConflict, TellFailed
  <1>2. /\ Complete(NoReport) /\ NoReport \in Reports
        /\ Complete(agent[a].shown) /\ agent[a].shown \in Reports
    BY InvParts, PepBudgetAssumption
       DEF Parts, AgentInv, AgentRecord, BudgetInv, Complete, NoReport, Reports
  <1>3. LET r == call[a][agent[a].calls].report IN Complete(r) /\ r \in Reports
    BY <1>1, InvParts DEF Parts, AgentInv, CallInv, CallRecord
  <1>4. ASSUME TellRehearsed(a) PROVE Inv'
    BY <1>1, <1>2, <1>3, <1>4, TellInv DEF TellRehearsed, Results
  <1>5. ASSUME TellApplied(a) PROVE Inv'
    BY <1>1, <1>2, <1>5, TellInv DEF TellApplied, Results
  <1>6. ASSUME TellConflict(a) PROVE Inv'
    BY <1>1, <1>2, <1>3, <1>6, TellInv DEF TellConflict, Results
  <1>7. ASSUME TellFailed(a) PROVE Inv'
    BY <1>1, <1>2, <1>7, TellInv DEF TellFailed, Results
  <1> QED BY <1>4, <1>5, <1>6, <1>7 DEF Told

\* A step that changes the budget and keeps every report complete: what agents
\* hold stays, and so do the calls but for one whose fate is settled.
LEMMA BudgetStep ==
  ASSUME Inv, BudgetInv', edited <= edited',
         budget'.edits \cap (1 .. edited) \subseteq budget.edits,
         agent' = agent, call' \in [Agents -> [Calls -> CallRecord]],
         \A b \in Agents, m \in Calls :
           /\ call'[b][m].input = call[b][m].input
           /\ call'[b][m].told = call[b][m].told
           /\ call'[b][m].report = call[b][m].report
           /\ call'[b][m].state # "unsent" => call[b][m].state # "unsent"
  PROVE  Inv'
  <1>1. Parts
    BY InvParts
  <1>2. ASSUME NEW r \in Reports, Complete(r) PROVE Complete(r)'
    BY <1>1, <1>2, StillComplete, PepBudgetAssumption DEF Parts, BudgetInv
  <1>3. agent' \in [Agents -> AgentRecord]
    BY <1>1 DEF Parts
  <1>4. ASSUME NEW b \in Agents PROVE AgentInv(agent[b])'
    <2>1. AgentInv(agent[b]) /\ agent[b].shown \in Reports
      BY <1>1 DEF Parts, AgentInv, AgentRecord
    <2>2. agent'[b] = agent[b]
      OBVIOUS
    <2>3. \A r \in Reports : r = agent[b].shown => (r = agent[b].shown)' /\ Complete(r)'
      BY <1>2, <2>1, <2>2 DEF AgentInv
    <2> QED BY <2>1, <2>2, <2>3 DEF AgentInv, Complete
  <1>5. ASSUME NEW b \in Agents, NEW m \in Calls PROVE CallInv(call[b][m])'
    <2>1. /\ CallInv(call[b][m])
          /\ call[b][m].told \in Reports /\ call[b][m].report \in Reports
      BY <1>1 DEF Parts, CallInv, CallRecord
    <2>2. Complete(call[b][m].told)' /\ Complete(call[b][m].report)'
      <3>1. \A r \in Reports : Complete(r) => Complete(r)'
        BY <1>2
      <3> QED BY <2>1, <3>1 DEF CallInv, Complete
    <2>3. call'[b][m] \in CallRecord
      OBVIOUS
    <2> QED BY <2>1, <2>2, <2>3 DEF CallInv
  <1> QED BY <1>3, <1>4, <1>5, InvPartsNext DEF Parts

LEMMA ApplyInv ==
  ASSUME Inv, NEW a \in Agents, NEW n \in Calls, Apply(a, n)
  PROVE  Inv'
  <1>1. Parts
    BY InvParts
  <1>2. BudgetInv'
    BY <1>1 DEF Parts, BudgetInv, Apply
  <1>3. edited <= edited' /\ budget'.edits = {} /\ agent' = agent
    BY <1>1, PepBudgetAssumption DEF Parts, BudgetInv, Apply
  <1> DEFINE k == [call[a][n] EXCEPT !.state = "applied"]
  <1>4. call' = [call EXCEPT ![a][n] = k]
    BY <1>1 DEF Parts, Apply
  <1>5. /\ k \in CallRecord
        /\ k.input = call[a][n].input /\ k.told = call[a][n].told
        /\ k.report = call[a][n].report /\ call[a][n].state # "unsent"
    <2>1. call[a][n] \in CallRecord /\ call[a][n].state = "sent"
      BY <1>1 DEF Parts, Apply, Sent
    <2> QED BY <2>1 DEF CallRecord, States
  <1> HIDE DEF k
  <1>6. call' \in [Agents -> [Calls -> CallRecord]]
    BY <1>1, <1>4, <1>5 DEF Parts
  <1>7. \A b \in Agents, m \in Calls :
          /\ call'[b][m].input = call[b][m].input
          /\ call'[b][m].told = call[b][m].told
          /\ call'[b][m].report = call[b][m].report
          /\ call'[b][m].state # "unsent" => call[b][m].state # "unsent"
    BY <1>1, <1>4, <1>5 DEF Parts
  <1> QED BY <1>2, <1>3, <1>6, <1>7, BudgetStep

\* An edit is later than every report.
LEMMA EditInv ==
  ASSUME Inv, Edit
  PROVE  Inv'
  <1>1. Parts
    BY InvParts
  <1>2. /\ edited \in Nat /\ edited' = edited + 1
        /\ budget' = [budget EXCEPT !.edits = budget.edits \cup {edited + 1}]
        /\ agent' = agent /\ call' = call
    BY <1>1, PepBudgetAssumption DEF Parts, BudgetInv, Edit
  <1>3. BudgetInv' /\ budget'.edits = budget.edits \cup {edited + 1}
    BY <1>1, <1>2, PepBudgetAssumption DEF Parts, BudgetInv, Edit, Edits
  <1>4. edited <= edited' /\ budget'.edits \cap (1 .. edited) \subseteq budget.edits
    BY <1>2, <1>3
  <1> QED BY <1>1, <1>2, <1>3, <1>4, BudgetStep DEF Parts

\* Nothing happens.
LEMMA StutterInv == Inv /\ UNCHANGED vars => Inv'
  <1> SUFFICES ASSUME Inv, UNCHANGED vars PROVE Parts'
    BY InvPartsNext
  <1>1. Parts
    BY InvParts
  <1> QED BY <1>1 DEF vars, Parts, BudgetInv, AgentInv, CallInv, Complete

LEMMA NextInv == Inv /\ [Next]_vars => Inv'
  <1> SUFFICES ASSUME Inv, [Next]_vars PROVE Inv'
    OBVIOUS
  <1>1. CASE Edit
    BY <1>1, EditInv
  <1>2. ASSUME NEW a \in Agents, NEW in \in Inputs, Reject(a, in) \/ Post(a, in) PROVE Inv'
    BY <1>2, RejectInv, PostInv
  <1>3. ASSUME NEW a \in Agents, NEW n \in Calls, Handle(a, n) PROVE Inv'
    BY <1>3, RefuseInv, RehearseInv, ConflictInv, ApplyInv DEF Handle
  <1>4. ASSUME NEW a \in Agents, Told(a) PROVE Inv'
    BY <1>4, ToldInv
  <1>5. CASE UNCHANGED vars
    BY <1>5, StutterInv
  <1> QED BY <1>1, <1>2, <1>3, <1>4, <1>5 DEF Next

\* Reports on their way, shown, or answered for by a call are complete, and what
\* was sent was accepted and confirmed after a report only, for any callers,
\* inputs and bounds.
THEOREM BudgetInvariant == Spec => []Inv
  <1>1. Init => Inv
    BY InitInv
  <1>2. Inv /\ [Next]_vars => Inv'
    BY NextInv
  <1> QED BY <1>1, <1>2, PTL DEF Spec

\* Every variable keeps its type, for any callers, inputs and bounds.
THEOREM BudgetTypes == Spec => []TypeOK
  <1>1. Inv => TypeOK
    BY DEF Inv
  <1> QED BY <1>1, BudgetInvariant, PTL

-----------------------------------------------------------------------------
(* What one step does to one call.                                            *)

Fresh(k) == k.state = "sent" /\ k.result = "none"

\* The endpoint settles the fate of request n of a, and of no other.
Settles(a, n) ==
  /\ Handle(a, n)
  /\ call'[a][n].input = call[a][n].input
  /\ call'[a][n].result = call[a][n].result
  /\ \/ Refuse(a, n) /\ call'[a][n].state = "refused"
     \/ Rehearse(a, n) /\ call'[a][n].state = "rehearsed"
     \/ Conflict(a, n) /\ call'[a][n].state = "conflict"
     \/ Apply(a, n) /\ call'[a][n].state = "applied"

\* The caller is told of a call what its fate allows.
Learns(a, n) ==
  /\ call'[a][n].input = call[a][n].input
  /\ call'[a][n].state = call[a][n].state
  /\ \/ call'[a][n].result = "error"
     \/ call'[a][n].result = call[a][n].state
        /\ call[a][n].state \in {"rehearsed", "conflict", "applied"}

LEMMA HandleStep ==
  ASSUME Inv, NEW a \in Agents, NEW n \in Calls, NEW b \in Agents, NEW m \in Calls,
         Handle(b, m)
  PROVE  call'[a][n] = call[a][n] \/ Settles(a, n)
  <1>1. call \in [Agents -> [Calls -> CallRecord]]
    BY InvParts DEF Parts
  <1>2. CASE a # b \/ n # m
    BY <1>1, <1>2 DEF Handle, Refuse, Rehearse, Conflict, Apply
  <1>3. CASE a = b /\ n = m
    <2>1. call[a][n] \in CallRecord
      BY <1>1
    <2>2. CASE Refuse(a, n)
      <3>1. call'[a][n] = [call[a][n] EXCEPT !.state = "refused"]
        BY <1>1, <2>2 DEF Refuse
      <3> QED BY <2>1, <2>2, <3>1 DEF CallRecord, Settles, Handle
    <2>3. CASE Rehearse(a, n)
      <3>1. call'[a][n] = Answered(call[a][n], "rehearsed", Report)
        BY <1>1, <2>3 DEF Rehearse, Answered
      <3>2. Report \in Reports /\ "rehearsed" \in States
        BY ReportComplete DEF States
      <3>3. /\ call'[a][n].state = "rehearsed"
            /\ call'[a][n].input = call[a][n].input
            /\ call'[a][n].result = call[a][n].result
        BY <2>1, <3>1, <3>2, AnsweredFields
      <3> QED BY <2>3, <3>3 DEF Settles, Handle
    <2>4. CASE Conflict(a, n)
      <3>1. call'[a][n] = Answered(call[a][n], "conflict", Report)
        BY <1>1, <2>4 DEF Conflict, Answered
      <3>2. Report \in Reports /\ "conflict" \in States
        BY ReportComplete DEF States
      <3>3. /\ call'[a][n].state = "conflict"
            /\ call'[a][n].input = call[a][n].input
            /\ call'[a][n].result = call[a][n].result
        BY <2>1, <3>1, <3>2, AnsweredFields
      <3> QED BY <2>4, <3>3 DEF Settles, Handle
    <2>5. CASE Apply(a, n)
      <3>1. call'[a][n] = [call[a][n] EXCEPT !.state = "applied"]
        BY <1>1, <2>5 DEF Apply
      <3> QED BY <2>1, <2>5, <3>1 DEF CallRecord, Settles, Handle
    <2> QED BY <1>3, <2>2, <2>3, <2>4, <2>5 DEF Handle
  <1> QED BY <1>2, <1>3

LEMMA ToldStep ==
  ASSUME Inv, NEW a \in Agents, NEW n \in Calls, NEW b \in Agents, Told(b)
  PROVE  call'[a][n] = call[a][n] \/ Learns(a, n)
  <1>1. call \in [Agents -> [Calls -> CallRecord]]
    BY InvParts DEF Parts
  <1>2. PICK result, shown :
          /\ Tell(b, result, shown)
          /\ result = "error" \/ (result = Fate(b) /\ result \in {"rehearsed", "conflict", "applied"})
    BY DEF Told, TellRehearsed, TellApplied, TellConflict, TellFailed
  <1>3. CASE a # b \/ n # agent[b].calls
    BY <1>1, <1>2, <1>3 DEF Tell
  <1>4. CASE a = b /\ n = agent[b].calls
    <2>1. call'[a][n] = Resulted(call[a][n], result)
      BY <1>1, <1>2, <1>4 DEF Tell, Resulted
    <2>2. /\ call'[a][n].input = call[a][n].input
          /\ call'[a][n].state = call[a][n].state
          /\ call'[a][n].result = result
      BY <1>1, <2>1, ResultedFields
    <2> QED BY <1>2, <1>4, <2>2 DEF Learns, Fate
  <1> QED BY <1>3, <1>4

LEMMA CallStep ==
  ASSUME Inv, [Next]_vars, NEW a \in Agents, NEW n \in Calls
  PROVE  call'[a][n] = call[a][n] \/ Fresh(call'[a][n]) \/ Settles(a, n) \/ Learns(a, n)
  <1>1. CASE Edit \/ UNCHANGED vars
    BY <1>1 DEF Edit, vars
  <1>2. ASSUME NEW b \in Agents, NEW in \in Inputs, Reject(b, in) PROVE call' = call
    BY <1>2 DEF Reject
  <1>3. ASSUME NEW b \in Agents, NEW in \in Inputs, Post(b, in)
        PROVE  call'[a][n] = call[a][n] \/ Fresh(call'[a][n])
    <2>1. call \in [Agents -> [Calls -> CallRecord]]
      BY InvParts DEF Parts
    <2> DEFINE k == [input |-> in, told |-> agent[b].shown, state |-> "sent",
                     report |-> NoReport, result |-> "none"]
    <2>2. Fresh(k) /\ call' = [call EXCEPT ![b][agent[b].calls + 1] = k]
      BY <1>3 DEF Fresh, Post
    <2> HIDE DEF k
    <2> QED BY <2>1, <2>2
  <1>4. ASSUME NEW b \in Agents, NEW m \in Calls, Handle(b, m)
        PROVE  call'[a][n] = call[a][n] \/ Settles(a, n)
    BY <1>4, HandleStep
  <1>5. ASSUME NEW b \in Agents, Told(b) PROVE call'[a][n] = call[a][n] \/ Learns(a, n)
    BY <1>5, ToldStep
  <1> QED BY <1>1, <1>2, <1>3, <1>4, <1>5 DEF Next

-----------------------------------------------------------------------------
(* The properties.                                                            *)

\* What an applied request had said.
LEMMA ApplySaid ==
  ASSUME Inv, NEW a \in Agents, NEW n \in Calls, Apply(a, n)
  PROVE  LET in == call[a][n].input IN
         /\ Accepted(in) /\ in.mode = "apply"
         /\ budget.loaded => in.replace
         /\ budget.edits # {} => in.confirm_replace /\ Payload(in).confirm_replace
  <1> DEFINE in == call[a][n].input
  <1>1. Accepted(in)
    BY InvParts DEF Parts, CallInv, Apply, Sent
  <1>2. ~Payload(in).dry_run /\ (budget.loaded => Payload(in).replace)
        /\ (budget.edits # {} => Payload(in).confirm_replace)
    BY DEF Apply, Refuses
  <1>3. Mode(in) # "preview"
    BY <1>2 DEF Payload
  <1>4. in.mode = "apply"
    BY <1>1, <1>3 DEF Accepted, Mode
  <1>5. (budget.loaded => in.replace) /\ (budget.edits # {} => in.confirm_replace)
    BY <1>2, <1>3 DEF Payload
  <1> QED BY <1>1, <1>2, <1>4, <1>5

\* Only a load changes whose budget it is, or takes an edit away.
LEMMA OnlyApplies ==
  ASSUME Inv, [Next]_vars, budget'.by # budget.by \/ ~(budget.edits \subseteq budget'.edits)
  PROVE  \E a \in Agents, n \in Calls : Apply(a, n) /\ Applies(a, n)
  <1>1. ~Edit
    <2>1. budget \in [loaded : BOOLEAN, edits : SUBSET Edits, by : {<<>>} \cup (Agents \X Calls)]
      BY InvParts DEF Parts, BudgetInv
    <2> QED BY <2>1 DEF Edit
  <1>2. \E a \in Agents, n \in Calls : Apply(a, n)
    BY <1>1 DEF Next, vars, Reject, Post, Handle, Refuse, Rehearse, Conflict,
                Told, TellRehearsed, TellApplied, TellConflict, TellFailed, Tell
  <1>3. ASSUME NEW a \in Agents, NEW n \in Calls, Apply(a, n) PROVE Applies(a, n)
    <2>1. call \in [Agents -> [Calls -> CallRecord]]
      BY InvParts DEF Parts
    <2>2. call'[a][n] = [call[a][n] EXCEPT !.state = "applied"]
      BY <1>3, <2>1 DEF Apply
    <2>3. call[a][n] \in CallRecord
      BY <2>1
    <2> QED BY <1>3, <2>2, <2>3 DEF CallRecord, Applies, Apply
  <1> QED BY <1>2, <1>3

\* For any callers and inputs, what is left out of a call never writes: a budget
\* is replaced, or loses an edit, only by a call that spelled it out.
THEOREM OmissionNeverWrites == Spec => NothingByOmission
  <1> DEFINE Said ==
        budget'.by # budget.by \/ ~(budget.edits \subseteq budget'.edits) =>
          \E a \in Agents, n \in Calls :
            LET in == call[a][n].input IN
            /\ Applies(a, n)
            /\ in.mode = "apply"
            /\ budget.loaded => in.replace
            /\ budget.edits # {} => in.confirm_replace
  <1>1. Inv /\ [Next]_vars => Said
    BY OnlyApplies, ApplySaid
  <1>2. Inv /\ [Next]_vars => [Said]_vars
    BY <1>1
  <1> QED BY <1>2, BudgetInvariant, PTL DEF Spec, NothingByOmission

\* For any callers that confirm only after a report, and any inputs: what a load
\* destroys was in the report the caller had when it sent the load, or is newer.
THEOREM LossesShown == Spec => LossesWereShown
  <1> DEFINE Shown ==
        \A a \in Agents, n \in Calls :
          Applies(a, n) /\ budget.edits # {} =>
            /\ call[a][n].told.given
            /\ budget.edits \cap (1 .. call[a][n].told.at) \subseteq call[a][n].told.edits
  <1>1. ASSUME Inv, [Next]_vars PROVE Shown
    <2> SUFFICES ASSUME NEW a \in Agents, NEW n \in Calls, Applies(a, n), budget.edits # {}
                 PROVE  /\ call[a][n].told.given
                        /\ budget.edits \cap (1 .. call[a][n].told.at)
                             \subseteq call[a][n].told.edits
      OBVIOUS
    <2>1. Apply(a, n)
      BY <1>1, CallStep DEF Applies, Sent, Fresh, Settles, Learns
    <2>2. Payload(call[a][n].input).confirm_replace
      BY <1>1, <2>1, ApplySaid
    <2>3. CallInv(call[a][n]) /\ call[a][n].state # "unsent"
      BY <1>1, <2>1, InvParts DEF Parts, Apply, Sent
    <2> QED BY <2>2, <2>3 DEF CallInv, Complete
  <1>2. Inv /\ [Next]_vars => [Shown]_vars
    BY <1>1
  <1> QED BY <1>2, BudgetInvariant, PTL DEF Spec, LossesWereShown

\* For any callers and inputs: "applied" was applied, with every column of it
\* read, and a result that says nothing was written belongs to a request that
\* never will.
THEOREM AnswersAreTrue == Spec => []AnswersTrue
  <1> DEFINE TrueOf(k) ==
        /\ k.result = "applied" => k.state = "applied"
        /\ k.result \in {"rehearsed", "conflict"} => k.state \in {"rehearsed", "conflict"}
             True == \A a \in Agents, n \in Calls : TrueOf(call[a][n])
  <1>1. Init => True
    BY DEF Init
  <1>2. ASSUME Inv, [Next]_vars, True PROVE True'
    <2> SUFFICES ASSUME NEW a \in Agents, NEW n \in Calls PROVE TrueOf(call[a][n])'
      OBVIOUS
    <2>1. TrueOf(call[a][n])
      BY <1>2
    <2>2. CASE call'[a][n] = call[a][n] \/ Fresh(call'[a][n])
      BY <2>1, <2>2 DEF Fresh
    <2>3. CASE Settles(a, n)
      BY <2>1, <2>3 DEF Settles, Refuse, Rehearse, Conflict, Apply, Sent
    <2>4. CASE Learns(a, n)
      BY <2>1, <2>4 DEF Learns
    <2> QED BY <1>2, <2>2, <2>3, <2>4, CallStep
  <1>3. Inv /\ True => AnswersTrue
    <2> SUFFICES ASSUME Inv, True, NEW a \in Agents, NEW n \in Calls,
                        call[a][n].result = "applied"
                 PROVE  /\ call[a][n].state = "applied"
                        /\ \A i \in DOMAIN call[a][n].input.elements :
                             call[a][n].input.elements[i].columns \subseteq PEPElementColumns
      BY DEF AnswersTrue
    <2>1. call[a][n].state = "applied" /\ CallInv(call[a][n])
      BY InvParts DEF Parts
    <2>2. ValidatePEPBudget(call[a][n].input)
      BY <2>1 DEF CallInv, Accepted
    <2> QED BY <2>1, <2>2 DEF ValidatePEPBudget, PEPUnknownColumns
  <1> HIDE DEF True
  <1> QED BY <1>1, <1>2, <1>3, BudgetInvariant, PTL DEF Spec

\* For any callers and inputs: only its own elements get a rehearsal refused.
THEOREM RehearsalIsAvailable == Spec => []RehearsalAvailable
  <1>1. Init => RehearsalAvailable
    BY DEF Init, RehearsalAvailable
  <1>2. ASSUME Inv, [Next]_vars, RehearsalAvailable PROVE RehearsalAvailable'
    <2> SUFFICES ASSUME NEW a \in Agents, NEW n \in Calls, call'[a][n].state = "refused",
                        Mode(call'[a][n].input) = "preview"
                 PROVE  ~Rooted(call'[a][n].input.elements)
      BY DEF RehearsalAvailable
    <2>1. CASE call'[a][n] = call[a][n] \/ Learns(a, n)
      BY <1>2, <2>1 DEF RehearsalAvailable, Learns
    <2>2. CASE Settles(a, n)
      <3>1. Refuse(a, n) /\ call'[a][n].input = call[a][n].input
        BY <2>2 DEF Settles
      <3>2. Payload(call[a][n].input).replace
        BY <3>1 DEF Payload
      <3>3. Payload(call[a][n].input).elements = call[a][n].input.elements
        BY DEF Payload
      <3> QED BY <3>1, <3>2, <3>3 DEF Refuse, Refuses
    <2> QED BY <1>2, <2>1, <2>2, CallStep DEF Fresh
  <1> QED BY <1>1, <1>2, BudgetInvariant, PTL DEF Spec
=============================================================================
