----------------------------- MODULE RestClient ------------------------------
(* Client.Do of internal/dolapi: the attempts of one REST call, its backoff,  *)
(* the caller's context, and the write hook that empties the read cache. The  *)
(* network may lose an answer, and may deliver a request long after the       *)
(* client gave up on it.                                                      *)
EXTENDS Integers, FiniteSets

CONSTANTS
  Callers,      \* goroutines in Client.Do, one call each
  MaxAttempts   \* attempts of a method that may be retried (client.go: 3)

ASSUME AttemptsAssumption == MaxAttempts \in Nat \ {0}

Methods == {"GET", "POST", "PUT", "DELETE"}
Attempts == 0 .. MaxAttempts - 1

VARIABLES
  db,       \* number of changes Dolibarr has made
  call,     \* Client.Do's local state
  request,  \* what became of each attempt of each call
  hooked    \* ghost: calls whose hook has run, with the version it ran at

vars == <<db, call, request, hooked>>

CallPCs == {"idle", "ready", "waiting", "backoff", "ok", "error"}

\* The life of one attempt outside the client.
RequestStates == {"unsent", "sent", "applied", "served", "refused", "broken"}

-----------------------------------------------------------------------------
(* Client.Do.                                                                 *)

\* Mutant of AttemptLimit: every method is retried.
BugAttemptLimitSame(m) == MaxAttempts

\* A POST is attempted once: a create may have succeeded without an answer.
AttemptLimit(m) == IF m = "POST" THEN 1 ELSE MaxAttempts

Begin(c, m) ==
  /\ call[c].pc = "idle"
  /\ call' = [call EXCEPT ![c].pc = "ready", ![c].method = m]
  /\ UNCHANGED <<db, request, hooked>>

\* The body does not marshal, or no request can be made of the endpoint: an error
\* before anything is sent, the same at every attempt and so found at the first.
Unsendable(c) ==
  /\ call[c].pc = "ready"
  /\ call[c].attempt = 0
  /\ call' = [call EXCEPT ![c].pc = "error"]
  /\ UNCHANGED <<db, request, hooked>>

\* A request made with a context that is still live goes out.
Send(c) ==
  /\ call[c].pc = "ready"
  /\ ~call[c].cancelled
  /\ call' = [call EXCEPT ![c].pc = "waiting"]
  /\ request' = [request EXCEPT ![c][call[c].attempt].state = "sent"]
  /\ UNCHANGED <<db, hooked>>

\* Mutant of NextAttempt: one attempt too many.
BugNextAttemptOneMore(c) ==
  IF call[c].attempt + 1 <= AttemptLimit(call[c].method)
  THEN [call[c] EXCEPT !.pc = "backoff", !.attempt = @ + 1]
  ELSE [call[c] EXCEPT !.pc = "error"]

\* Mutant of NextAttempt: the attempt is not counted.
BugNextAttemptUncounted(c) ==
  IF call[c].attempt + 1 < AttemptLimit(call[c].method)
  THEN [call[c] EXCEPT !.pc = "backoff"]
  ELSE [call[c] EXCEPT !.pc = "error"]

\* continue in the loop of Do: the next attempt after a backoff, or no more.
NextAttempt(c) ==
  IF call[c].attempt + 1 < AttemptLimit(call[c].method)
  THEN [call[c] EXCEPT !.pc = "backoff", !.attempt = @ + 1]
  ELSE [call[c] EXCEPT !.pc = "error"]

Answered(c) == request[c][call[c].attempt].state

\* No answer: the connection breaks, the 30 s timeout passes, the body cannot
\* be read, or the context is cancelled before or while the request is out.
NoAnswer(c) ==
  /\ \/ call[c].pc = "waiting"
     \/ call[c].pc = "ready" /\ call[c].cancelled
  /\ call' = [call EXCEPT ![c] = NextAttempt(c)]
  /\ UNCHANGED <<db, request, hooked>>

\* A status of 500 or more, Dolibarr's own or a gateway's in front of it: retried
\* like a missing answer; on the last attempt it is the call's error.
AnswerServerError(c) ==
  /\ call[c].pc = "waiting"
  /\ Answered(c) \in {"broken", "applied", "served"}
  /\ call' = [call EXCEPT ![c] = NextAttempt(c)]
  /\ UNCHANGED <<db, request, hooked>>

\* Mutant of AnswerRefused: the hook runs on every answer.
BugAnswerRefusedHooks(c) ==
  /\ call[c].pc = "waiting"
  /\ Answered(c) = "refused"
  /\ hooked' = [hooked EXCEPT ![c] = [times |-> @.times + 1, at |-> db]]
  /\ call' = [call EXCEPT ![c].pc = "error"]
  /\ UNCHANGED <<db, request>>

\* A status from 400 to 499: the call's error, no retry.
AnswerRefused(c) ==
  /\ call[c].pc = "waiting"
  /\ Answered(c) = "refused"
  /\ call' = [call EXCEPT ![c].pc = "error"]
  /\ UNCHANGED <<db, request, hooked>>

\* Mutant of AnswerOk: DELETE is forgotten among the methods that write.
BugAnswerOkForgetsDelete(c) ==
  /\ call[c].pc = "waiting"
  /\ Answered(c) \in {"applied", "served"}
  /\ hooked' = IF call[c].method \in {"GET", "DELETE"} THEN hooked
               ELSE [hooked EXCEPT ![c] = [times |-> @.times + 1, at |-> db]]
  /\ call' = [call EXCEPT ![c].pc = "ok"]
  /\ UNCHANGED <<db, request>>

\* A status below 400: the hook runs, for a method that can write, and Do returns.
AnswerOk(c) ==
  /\ call[c].pc = "waiting"
  /\ Answered(c) \in {"applied", "served"}
  /\ hooked' = IF call[c].method = "GET" THEN hooked
               ELSE [hooked EXCEPT ![c] = [times |-> @.times + 1, at |-> db]]
  /\ call' = [call EXCEPT ![c].pc = "ok"]
  /\ UNCHANGED <<db, request>>

\* The wait before the next attempt ends.
BackoffElapsed(c) ==
  /\ call[c].pc = "backoff"
  /\ call' = [call EXCEPT ![c].pc = "ready"]
  /\ UNCHANGED <<db, request, hooked>>

\* Mutant of BackoffCancelled: the wait before a retry is a plain sleep.
BugBackoffCancelledNever(c) == FALSE

\* The caller's context ends the wait, and the call.
BackoffCancelled(c) ==
  /\ call[c].pc = "backoff"
  /\ call[c].cancelled
  /\ call' = [call EXCEPT ![c].pc = "error"]
  /\ UNCHANGED <<db, request, hooked>>

\* An attempt, from the request to what its answer means.
Attempt(c) ==
  \/ Unsendable(c)
  \/ Send(c)
  \/ NoAnswer(c)
  \/ AnswerServerError(c)
  \/ AnswerRefused(c)
  \/ AnswerOk(c)

Proceed(c) ==
  \/ Attempt(c)
  \/ BackoffElapsed(c)
  \/ BackoffCancelled(c)

Cancel(c) ==
  /\ call[c].pc \in {"ready", "waiting", "backoff"}
  /\ ~call[c].cancelled
  /\ call' = [call EXCEPT ![c].cancelled = TRUE]
  /\ UNCHANGED <<db, request, hooked>>

-----------------------------------------------------------------------------
(* Dolibarr and the network between. A request that was sent is handled at    *)
(* any later time, or never.                                                  *)

Applied(c) == {a \in Attempts : request[c][a].state = "applied"}

\* Dolibarr carries the request out. There is one record to delete.
Apply(c, a) ==
  /\ request[c][a].state = "sent"
  /\ call[c].method # "GET"
  /\ call[c].method = "DELETE" => Applied(c) = {}
  /\ db' = db + 1
  /\ request' = [request EXCEPT ![c][a] = [state |-> "applied", ver |-> db + 1]]
  /\ UNCHANGED <<call, hooked>>

\* An answer that changed nothing: a GET, or a POST that asks for a preview; a
\* refusal; or a failure before the change.
AnswerUnchanged(c, a) ==
  /\ request[c][a].state = "sent"
  /\ \E s \in {"refused", "broken"} \cup
             (IF call[c].method \in {"GET", "POST"} THEN {"served"} ELSE {}) :
       request' = [request EXCEPT ![c][a].state = s]
  /\ UNCHANGED <<db, call, hooked>>

Handle(c) == \E a \in Attempts : Apply(c, a) \/ AnswerUnchanged(c, a)

Init ==
  /\ db = 0
  /\ call = [c \in Callers |->
       [pc |-> "idle", method |-> "GET", attempt |-> 0, cancelled |-> FALSE]]
  /\ request = [c \in Callers |-> [a \in Attempts |-> [state |-> "unsent", ver |-> 0]]]
  /\ hooked = [c \in Callers |-> [times |-> 0, at |-> 0]]

Next == \E c \in Callers :
  \/ \E m \in Methods : Begin(c, m)
  \/ Proceed(c)
  \/ Cancel(c)
  \/ Handle(c)

Spec == Init /\ [][Next]_vars

\* The client goes on: every attempt ends, by the HTTP timeout, and the backoff by
\* its timer, or by the context. A caller that has cancelled is not promised the
\* timer: its context alone must release it. Nothing is assumed of the network, of
\* Dolibarr or of the caller.
FairSpec ==
  /\ Spec
  /\ \A c \in Callers :
       /\ WF_vars(Attempt(c))
       /\ WF_vars(BackoffElapsed(c) /\ ~call[c].cancelled)
       /\ WF_vars(BackoffCancelled(c))

-----------------------------------------------------------------------------
(* Properties.                                                                *)

\* Every variable has its type.
TypeOK ==
  /\ db \in Nat
  /\ call \in [Callers -> [pc : CallPCs, method : Methods, attempt : Attempts,
                           cancelled : BOOLEAN]]
  /\ request \in [Callers -> [Attempts -> [state : RequestStates, ver : Nat]]]
  /\ hooked \in [Callers -> [times : Nat, at : Nat]]

\* What holds of one call, its requests and its hook, at version v of Dolibarr:
\* only the attempts made so far have been sent, a call that cannot be carried out
\* twice was not, and the hook ran in the step that made a write succeed only, after
\* the change that was answered.
CallInv(k, requests, hook, v) ==
  /\ k.pc = "idle" => k.attempt = 0
  /\ k.attempt < AttemptLimit(k.method)
  /\ \A a \in Attempts :
       /\ requests[a].ver <= v
       /\ requests[a].state # "unsent" =>
            /\ a <= k.attempt /\ k.pc # "idle"
            /\ a = k.attempt => k.pc \in {"waiting", "ok", "error"}
       /\ requests[a].state = "applied" => k.method # "GET"
  /\ k.method = "DELETE" =>
       \A a, b \in Attempts :
         requests[a].state = "applied" /\ requests[b].state = "applied" => a = b
  /\ hook.times = IF k.pc = "ok" /\ k.method # "GET" THEN 1 ELSE 0
  /\ k.pc = "ok" /\ k.method # "GET" =>
       /\ requests[k.attempt].state # "sent"
       /\ hook.at >= requests[k.attempt].ver

\* The inductive invariant of RestClientProofs.
Inv ==
  /\ TypeOK
  /\ \A c \in Callers : CallInv(call[c], request[c], hooked[c], db)

\* A POST is carried out at most once, whatever is lost or late, so no record
\* is duplicated (client.go:82-84).
PostLandsOnce ==
  \A c \in Callers : call[c].method = "POST" => Cardinality(Applied(c)) <= 1

\* When a write has succeeded, the cache was emptied after the change that was
\* answered: no entry made before that change outlives the call (client.go:152-156).
SuccessIsCovered ==
  \A c \in Callers :
    call[c].pc = "ok" /\ call[c].method # "GET" =>
      /\ hooked[c].times = 1
      /\ hooked[c].at >= request[c][call[c].attempt].ver

\* Every call returns: the attempts are bounded, each of them ends, and a caller
\* that cancels while a retry is pending is not held until its timer
\* (client.go:91-99).
EveryCallReturns ==
  \A c \in Callers : (call[c].pc # "idle") ~> (call[c].pc \in {"ok", "error"})

Phase(pc) == IF pc \in {"ready", "waiting", "backoff"} THEN "open" ELSE pc

\* The client implements WriteCall: what it promises holds through retries,
\* lost answers and late requests.
Promise == INSTANCE WriteCall WITH
  MostChanges <- MaxAttempts,
  phase <- [c \in Callers |-> Phase(call[c].pc)],
  method <- [c \in Callers |-> call[c].method],
  changes <- [c \in Callers |-> Cardinality(Applied(c))],
  told <- [c \in Callers |-> hooked[c].times]

KeepsPromise == Promise!Spec
=============================================================================
