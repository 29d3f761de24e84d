--------------------------- MODULE RestClientProofs ---------------------------
(* What Client.Do guarantees for any number of callers and attempts, whatever *)
(* the network loses or delivers late.                                        *)
EXTENDS RestClient, FiniteSetTheorems, TLAPS

CallRecord == [pc : CallPCs, method : Methods, attempt : Attempts, cancelled : BOOLEAN]
RequestRecord == [state : RequestStates, ver : Nat]
HookRecord == [times : Nat, at : Nat]

\* A step of one call: its own records keep their invariant, the others' stay, and
\* Dolibarr does not go back.
LEMMA StepOfOne ==
  ASSUME Inv, NEW c \in Callers, NEW k \in CallRecord, NEW r \in [Attempts -> RequestRecord],
         NEW h \in HookRecord, db' \in Nat, db <= db',
         call' = [call EXCEPT ![c] = k], request' = [request EXCEPT ![c] = r],
         hooked' = [hooked EXCEPT ![c] = h], CallInv(k, r, h, db')
  PROVE  Inv'
  <1>1. TypeOK'
    BY DEF Inv, TypeOK, CallRecord, RequestRecord, HookRecord
  <1>2. ASSUME NEW d \in Callers PROVE CallInv(call'[d], request'[d], hooked'[d], db')
    <2>1. CASE d = c
      BY <2>1 DEF Inv, TypeOK
    <2>2. CASE d # c
      <3>1. call'[d] = call[d] /\ request'[d] = request[d] /\ hooked'[d] = hooked[d]
        BY <2>2 DEF Inv, TypeOK
      <3>2. CallInv(call[d], request[d], hooked[d], db) /\ db \in Nat
            /\ request[d] \in [Attempts -> RequestRecord]
        BY DEF Inv, TypeOK, RequestRecord
      <3>3. \A a \in Attempts : request[d][a].ver <= db'
        BY <3>2 DEF CallInv, RequestRecord
      <3> QED BY <3>1, <3>2, <3>3 DEF CallInv
    <2> QED BY <2>1, <2>2
  <1> QED BY <1>1, <1>2 DEF Inv

\* Every call is one of the invariant's.
LEMMA Types ==
  ASSUME Inv, NEW c \in Callers
  PROVE  /\ db \in Nat
         /\ call[c] \in CallRecord
         /\ request[c] \in [Attempts -> RequestRecord]
         /\ hooked[c] \in HookRecord
         /\ CallInv(call[c], request[c], hooked[c], db)
         /\ request = [request EXCEPT ![c] = request[c]]
         /\ hooked = [hooked EXCEPT ![c] = hooked[c]]
         /\ call = [call EXCEPT ![c] = call[c]]
  BY DEF Inv, TypeOK, CallRecord, RequestRecord, HookRecord

\* A step of the call's own record only.
LEMMA OnlyCall ==
  ASSUME Inv, NEW c \in Callers, NEW k \in CallRecord, call' = [call EXCEPT ![c] = k],
         UNCHANGED <<db, request, hooked>>, CallInv(k, request[c], hooked[c], db)
  PROVE  Inv'
  <1>1. db' \in Nat /\ db <= db'
    BY Types
  <1>2. request' = [request EXCEPT ![c] = request[c]] /\ hooked' = [hooked EXCEPT ![c] = hooked[c]]
    BY Types
  <1>3. request[c] \in [Attempts -> RequestRecord] /\ hooked[c] \in HookRecord
    BY Types
  <1>4. CallInv(k, request[c], hooked[c], db')
    OBVIOUS
  <1> DEFINE r == request[c]
             h == hooked[c]
  <1>5. /\ request' = [request EXCEPT ![c] = r] /\ hooked' = [hooked EXCEPT ![c] = h]
        /\ r \in [Attempts -> RequestRecord] /\ h \in HookRecord /\ CallInv(k, r, h, db')
    BY <1>2, <1>3, <1>4
  <1> HIDE DEF r, h
  <1> QED BY <1>1, <1>5, StepOfOne

LEMMA LimitIsPositive == \A m \in Methods : AttemptLimit(m) \in 1 .. MaxAttempts
  BY AttemptsAssumption DEF AttemptLimit, Methods

LEMMA InitInv == Init => Inv
  <1> SUFFICES ASSUME Init PROVE Inv
    OBVIOUS
  <1>1. TypeOK
    BY AttemptsAssumption DEF Init, TypeOK, CallPCs, Methods, Attempts, RequestStates
  <1>2. ASSUME NEW c \in Callers PROVE CallInv(call[c], request[c], hooked[c], db)
    <2>1. /\ call[c] = [pc |-> "idle", method |-> "GET", attempt |-> 0, cancelled |-> FALSE]
          /\ request[c] = [a \in Attempts |-> [state |-> "unsent", ver |-> 0]]
          /\ hooked[c] = [times |-> 0, at |-> 0] /\ db = 0
      BY DEF Init
    <2>2. 0 < AttemptLimit("GET")
      BY LimitIsPositive, AttemptsAssumption DEF Methods
    <2> QED BY <2>1, <2>2 DEF CallInv
  <1> QED BY <1>1, <1>2 DEF Inv

LEMMA BeginInv ==
  ASSUME Inv, NEW c \in Callers, NEW m \in Methods, Begin(c, m)
  PROVE  Inv'
  <1> DEFINE k == [call[c] EXCEPT !.pc = "ready", !.method = m]
  <1>1. /\ k \in CallRecord /\ k.pc = "ready" /\ k.method = m
        /\ k.attempt = call[c].attempt
    BY Types DEF CallRecord, CallPCs
  <1>2. call[c].attempt = 0 /\ call[c].pc = "idle"
    BY Types DEF Begin, CallInv
  <1>3. call' = [call EXCEPT ![c] = k]
    BY Types DEF Begin, Inv, TypeOK
  <1>4. \A a \in Attempts : request[c][a].state = "unsent"
    BY <1>2, Types DEF CallInv
  <1>5. k.attempt < AttemptLimit(k.method)
    BY <1>1, <1>2, LimitIsPositive, AttemptsAssumption
  <1> HIDE DEF k
  <1>6. CallInv(k, request[c], hooked[c], db)
    BY <1>1, <1>2, <1>4, <1>5, Types DEF CallInv
  <1> QED BY <1>1, <1>3, <1>6, OnlyCall DEF Begin

\* A call goes on, by a backoff or an end, without anything sent or hooked.
LEMMA MoveInv ==
  ASSUME Inv, NEW c \in Callers, NEW k \in CallRecord, call' = [call EXCEPT ![c] = k],
         UNCHANGED <<db, request, hooked>>, call[c].pc \notin {"idle", "ok"},
         k.method = call[c].method, k.pc \notin {"idle", "ok"},
         k.attempt < AttemptLimit(k.method),
         \/ k.attempt > call[c].attempt
         \/ /\ k.attempt = call[c].attempt
            /\ \/ k.pc \in {"waiting", "error"}
               \/ k.pc = call[c].pc
               \/ call[c].pc \in {"ready", "backoff"}
  PROVE  Inv'
  <1>1. CallInv(call[c], request[c], hooked[c], db) /\ call[c] \in CallRecord
    BY Types
  <1>2. CallInv(k, request[c], hooked[c], db)
    BY <1>1, AttemptsAssumption DEF CallInv, CallRecord, Attempts
  <1> QED BY <1>2, OnlyCall

LEMMA NextAttemptInv ==
  ASSUME Inv, NEW c \in Callers, call[c].pc \in {"ready", "waiting"},
         call' = [call EXCEPT ![c] = NextAttempt(c)], UNCHANGED <<db, request, hooked>>
  PROVE  Inv'
  <1>1. call[c] \in CallRecord /\ call[c].attempt < AttemptLimit(call[c].method)
    BY Types DEF CallInv
  <1>2. CASE call[c].attempt + 1 < AttemptLimit(call[c].method)
    <2> DEFINE k == [call[c] EXCEPT !.pc = "backoff", !.attempt = call[c].attempt + 1]
    <2>1. call[c].attempt + 1 \in Attempts
      BY <1>1, <1>2, LimitIsPositive, AttemptsAssumption DEF CallRecord, Attempts
    <2>2. /\ k \in CallRecord /\ k.pc = "backoff" /\ k.method = call[c].method
          /\ k.attempt = call[c].attempt + 1
      BY <1>1, <2>1 DEF CallRecord, CallPCs
    <2>3. call' = [call EXCEPT ![c] = k]
      BY <1>2 DEF NextAttempt
    <2>4. k.attempt > call[c].attempt
      BY <1>1, <2>2, AttemptsAssumption DEF CallRecord, Attempts
    <2> HIDE DEF k
    <2> QED BY <1>2, <2>2, <2>3, <2>4, MoveInv
  <1>3. CASE ~(call[c].attempt + 1 < AttemptLimit(call[c].method))
    <2> DEFINE k == [call[c] EXCEPT !.pc = "error"]
    <2>1. /\ k \in CallRecord /\ k.pc = "error" /\ k.method = call[c].method
          /\ k.attempt = call[c].attempt
      BY <1>1 DEF CallRecord, CallPCs
    <2>2. call' = [call EXCEPT ![c] = k]
      BY <1>3 DEF NextAttempt
    <2> HIDE DEF k
    <2> QED BY <1>1, <2>1, <2>2, MoveInv
  <1> QED BY <1>2, <1>3

LEMMA NoRequestInv ==
  ASSUME Inv, NEW c \in Callers,
         \/ Unsendable(c) \/ NoAnswer(c) \/ AnswerServerError(c) \/ AnswerRefused(c)
         \/ BackoffElapsed(c) \/ BackoffCancelled(c)
  PROVE  Inv'
  <1>1. call[c] \in CallRecord /\ call[c].attempt < AttemptLimit(call[c].method)
    BY Types DEF CallInv
  <1>2. CASE NoAnswer(c) \/ AnswerServerError(c)
    BY <1>2, NextAttemptInv DEF NoAnswer, AnswerServerError
  <1>3. CASE Unsendable(c) \/ AnswerRefused(c) \/ BackoffCancelled(c)
    <2> DEFINE k == [call[c] EXCEPT !.pc = "error"]
    <2>1. /\ k \in CallRecord /\ k.pc = "error" /\ k.method = call[c].method
          /\ k.attempt = call[c].attempt
      BY <1>1 DEF CallRecord, CallPCs
    <2>2. /\ call' = [call EXCEPT ![c] = k] /\ UNCHANGED <<db, request, hooked>>
          /\ call[c].pc \in {"ready", "waiting", "backoff"}
      BY <1>3 DEF Unsendable, AnswerRefused, BackoffCancelled, Inv, TypeOK
    <2> HIDE DEF k
    <2> QED BY <1>1, <2>1, <2>2, MoveInv
  <1>4. CASE BackoffElapsed(c)
    <2> DEFINE k == [call[c] EXCEPT !.pc = "ready"]
    <2>1. /\ k \in CallRecord /\ k.pc = "ready" /\ k.method = call[c].method
          /\ k.attempt = call[c].attempt
      BY <1>1 DEF CallRecord, CallPCs
    <2>2. /\ call' = [call EXCEPT ![c] = k] /\ UNCHANGED <<db, request, hooked>>
          /\ call[c].pc = "backoff"
      BY <1>4 DEF BackoffElapsed, Inv, TypeOK
    <2> HIDE DEF k
    <2> QED BY <1>1, <2>1, <2>2, MoveInv
  <1> QED BY <1>2, <1>3, <1>4

LEMMA CancelInv ==
  ASSUME Inv, NEW c \in Callers, Cancel(c)
  PROVE  Inv'
  <1> DEFINE k == [call[c] EXCEPT !.cancelled = TRUE]
  <1>1. call[c] \in CallRecord /\ call[c].attempt < AttemptLimit(call[c].method)
    BY Types DEF CallInv
  <1>2. /\ k \in CallRecord /\ k.pc = call[c].pc /\ k.method = call[c].method
        /\ k.attempt = call[c].attempt
    BY <1>1 DEF CallRecord
  <1>3. /\ call' = [call EXCEPT ![c] = k] /\ UNCHANGED <<db, request, hooked>>
        /\ call[c].pc \in {"ready", "waiting", "backoff"}
    BY DEF Cancel, Inv, TypeOK
  <1> HIDE DEF k
  <1> QED BY <1>1, <1>2, <1>3, MoveInv

\* What is sent is the attempt that is next, for the first time.
LEMMA SendInv ==
  ASSUME Inv, NEW c \in Callers, Send(c)
  PROVE  Inv'
  <1> DEFINE n == call[c].attempt
             k == [call[c] EXCEPT !.pc = "waiting"]
             q == [request[c][n] EXCEPT !.state = "sent"]
             r == [request[c] EXCEPT ![n] = q]
  <1>1. /\ call[c] \in CallRecord /\ request[c] \in [Attempts -> RequestRecord]
        /\ hooked[c] \in HookRecord /\ db \in Nat /\ n \in Attempts /\ n = call[c].attempt
        /\ CallInv(call[c], request[c], hooked[c], db)
    BY Types DEF CallRecord
  <1>2. /\ k \in CallRecord /\ k.pc = "waiting" /\ k.method = call[c].method
        /\ k.attempt = n
    BY <1>1 DEF CallRecord, CallPCs
  <1>3. q \in RequestRecord /\ q.state = "sent" /\ q.ver = request[c][n].ver
    BY <1>1 DEF RequestRecord, RequestStates
  <1>4. call' = [call EXCEPT ![c] = k] /\ request' = [request EXCEPT ![c] = r]
    BY <1>1 DEF Send, Inv, TypeOK
  <1>5. db' = db /\ hooked' = [hooked EXCEPT ![c] = hooked[c]] /\ call[c].pc = "ready"
    BY Types DEF Send
  <1> HIDE DEF k, q
  <1>6. /\ r \in [Attempts -> RequestRecord] /\ r[n] = q
        /\ \A a \in Attempts : a # n => r[a] = request[c][a]
    BY <1>1, <1>3
  <1> HIDE DEF n, r
  <1>7. CallInv(k, r, hooked[c], db)
    <2>1. CallInv(call[c], request[c], hooked[c], db) /\ call[c].pc = "ready"
      BY <1>1, <1>5
    <2>2. ASSUME NEW a \in Attempts
          PROVE  /\ r[a].ver <= db
                 /\ r[a].state # "unsent" => a <= n
                 /\ r[a].state = "applied" => r[a] = request[c][a] /\ k.method # "GET"
      <3>1. CASE a = n
        <4>1. n <= n
          BY <1>1, AttemptsAssumption DEF Attempts
        <4> QED BY <1>1, <1>3, <1>6, <2>1, <3>1, <4>1 DEF CallInv
      <3>2. CASE a # n
        BY <1>1, <1>2, <1>6, <2>1, <3>2 DEF CallInv
      <3> QED BY <3>1, <3>2
    <2>3. k.attempt < AttemptLimit(k.method)
      BY <1>1, <1>2, <2>1 DEF CallInv
    <2>4. k.method = "DELETE" =>
            \A a, b \in Attempts : r[a].state = "applied" /\ r[b].state = "applied" => a = b
      BY <1>2, <2>1, <2>2 DEF CallInv
    <2>5. hooked[c].times = 0
      BY <2>1 DEF CallInv
    <2> QED BY <1>2, <2>2, <2>3, <2>4, <2>5 DEF CallInv
  <1> DEFINE h == hooked[c]
  <1>8. hooked' = [hooked EXCEPT ![c] = h] /\ h \in HookRecord /\ CallInv(k, r, h, db')
    BY <1>1, <1>5, <1>7
  <1>9. db' \in Nat /\ db <= db'
    BY <1>1, <1>5
  <1> HIDE DEF h
  <1> QED BY <1>2, <1>4, <1>6, <1>8, <1>9, StepOfOne

\* A write that succeeds runs the hook, after the change that was answered.
LEMMA AnswerOkInv ==
  ASSUME Inv, NEW c \in Callers, AnswerOk(c)
  PROVE  Inv'
  <1> DEFINE k == [call[c] EXCEPT !.pc = "ok"]
             h == IF call[c].method = "GET" THEN hooked[c]
                  ELSE [times |-> hooked[c].times + 1, at |-> db]
             r == request[c]
  <1>1. /\ call[c] \in CallRecord /\ r \in [Attempts -> RequestRecord]
        /\ hooked[c] \in HookRecord /\ db \in Nat /\ call[c].attempt \in Attempts
        /\ CallInv(call[c], r, hooked[c], db)
    BY Types DEF CallRecord
  <1>2. /\ k \in CallRecord /\ k.pc = "ok" /\ k.method = call[c].method
        /\ k.attempt = call[c].attempt
    BY <1>1 DEF CallRecord, CallPCs
  <1>3. h \in HookRecord
    BY <1>1 DEF HookRecord
  <1>4. call' = [call EXCEPT ![c] = k] /\ hooked' = [hooked EXCEPT ![c] = h]
    BY <1>1 DEF AnswerOk, Inv, TypeOK
  <1>5. /\ db' = db /\ request' = [request EXCEPT ![c] = r]
        /\ call[c].pc = "waiting" /\ r[call[c].attempt].state \in {"applied", "served"}
    BY Types DEF AnswerOk, Answered
  <1>6. /\ h.times = IF call[c].method # "GET" THEN 1 ELSE 0
        /\ call[c].method # "GET" => h.at = db
    BY <1>1, <1>5 DEF CallInv
  <1> HIDE DEF k, h, r
  <1>7. CallInv(k, r, h, db)
    <2>1. CallInv(call[c], r, hooked[c], db) /\ call[c].pc = "waiting"
      BY <1>1, <1>5
    <2>2. \A a \in Attempts :
            /\ r[a].ver <= db
            /\ r[a].state # "unsent" => a <= k.attempt
            /\ r[a].state = "applied" => k.method # "GET"
      BY <1>2, <2>1 DEF CallInv
    <2>3. k.method # "GET" => h.at >= r[k.attempt].ver
      <3>1. db >= r[k.attempt].ver
        BY <1>1, <1>2, <2>2 DEF RequestRecord
      <3> QED BY <1>2, <1>6, <3>1
    <2>4. r[k.attempt].state # "sent"
      BY <1>2, <1>5
    <2>5. k.attempt < AttemptLimit(k.method)
      BY <1>2, <2>1 DEF CallInv
    <2>6. k.method = "DELETE" =>
            \A a, b \in Attempts : r[a].state = "applied" /\ r[b].state = "applied" => a = b
      BY <1>2, <2>1 DEF CallInv
    <2>7. h.times = IF k.pc = "ok" /\ k.method # "GET" THEN 1 ELSE 0
      BY <1>2, <1>6
    <2> QED BY <1>2, <2>2, <2>3, <2>4, <2>5, <2>6, <2>7 DEF CallInv
  <1>8. db' \in Nat /\ db <= db' /\ CallInv(k, r, h, db')
    BY <1>1, <1>5, <1>7
  <1> QED BY <1>1, <1>2, <1>3, <1>4, <1>5, <1>8, StepOfOne

\* A request that was sent is carried out, or settled without a change.
LEMMA HandleInv ==
  ASSUME Inv, NEW c \in Callers, NEW a \in Attempts, Apply(c, a) \/ AnswerUnchanged(c, a)
  PROVE  Inv'
  <1> DEFINE k == call[c]
             h == hooked[c]
             q == request'[c][a]
             r == [request[c] EXCEPT ![a] = q]
  <1>1. /\ k \in CallRecord /\ request[c] \in [Attempts -> RequestRecord]
        /\ h \in HookRecord /\ db \in Nat /\ k.attempt \in Attempts
        /\ CallInv(k, request[c], h, db) /\ request[c][a].state = "sent"
    BY Types DEF CallRecord, Apply, AnswerUnchanged
  <1>2. call' = [call EXCEPT ![c] = k] /\ hooked' = [hooked EXCEPT ![c] = h]
    BY Types DEF Apply, AnswerUnchanged
  <1>3. request' = [request EXCEPT ![c] = r]
    BY <1>1 DEF Apply, AnswerUnchanged, Inv, TypeOK
  <1>4. CASE Apply(c, a)
    <2>1. q = [state |-> "applied", ver |-> db + 1] /\ db' = db + 1
      BY <1>1, <1>4 DEF Apply, Inv, TypeOK
    <2>2. k.method # "GET"
      BY <1>4 DEF Apply
    <2>3. k.method = "DELETE" => \A b \in Attempts : request[c][b].state # "applied"
      BY <1>4 DEF Apply, Applied
    <2>4. q \in RequestRecord /\ q.state = "applied" /\ q.ver = db + 1
      BY <1>1, <2>1 DEF RequestRecord, RequestStates
    <2> HIDE DEF k, h, q
    <2>5. /\ r \in [Attempts -> RequestRecord] /\ r[a] = q
          /\ \A b \in Attempts : b # a => r[b] = request[c][b]
      BY <1>1, <2>4
    <2> HIDE DEF r
    <2>6. CallInv(k, r, h, db')
      BY <1>1, <2>1, <2>2, <2>3, <2>4, <2>5 DEF CallInv, RequestRecord
    <2>7. db' \in Nat /\ db <= db'
      BY <1>1, <2>1
    <2> QED BY <1>1, <1>2, <1>3, <2>5, <2>6, <2>7, StepOfOne
  <1>5. CASE AnswerUnchanged(c, a)
    <2>1. PICK s \in {"refused", "broken", "served"} :
            request' = [request EXCEPT ![c][a].state = s]
      BY <1>5 DEF AnswerUnchanged
    <2>2. q = [request[c][a] EXCEPT !.state = s] /\ db' = db
      BY <1>1, <1>5, <2>1 DEF AnswerUnchanged, Inv, TypeOK
    <2>3. q \in RequestRecord /\ q.state = s /\ q.ver = request[c][a].ver
      BY <1>1, <2>2 DEF RequestRecord, RequestStates
    <2> HIDE DEF k, h, q
    <2>4. /\ r \in [Attempts -> RequestRecord] /\ r[a] = q
          /\ \A b \in Attempts : b # a => r[b] = request[c][b]
      BY <1>1, <2>3
    <2> HIDE DEF r
    <2>5. CallInv(k, r, h, db')
      BY <1>1, <2>2, <2>3, <2>4 DEF CallInv, RequestRecord
    <2>6. db' \in Nat /\ db <= db'
      BY <1>1, <2>2
    <2> QED BY <1>1, <1>2, <1>3, <2>4, <2>5, <2>6, StepOfOne
  <1> QED BY <1>4, <1>5

LEMMA StutterInv == Inv /\ UNCHANGED vars => Inv'
  BY DEF Inv, TypeOK, vars

LEMMA NextInv == Inv /\ [Next]_vars => Inv'
  <1> SUFFICES ASSUME Inv, [Next]_vars PROVE Inv'
    OBVIOUS
  <1>1. ASSUME NEW c \in Callers, NEW m \in Methods, Begin(c, m) PROVE Inv'
    BY <1>1, BeginInv
  <1>2. ASSUME NEW c \in Callers, Proceed(c) PROVE Inv'
    BY <1>2, SendInv, NoRequestInv, AnswerOkInv DEF Proceed, Attempt
  <1>3. ASSUME NEW c \in Callers, Cancel(c) PROVE Inv'
    BY <1>3, CancelInv
  <1>4. ASSUME NEW c \in Callers, Handle(c) PROVE Inv'
    BY <1>4, HandleInv DEF Handle
  <1>5. CASE UNCHANGED vars
    BY <1>5, StutterInv
  <1> QED BY <1>1, <1>2, <1>3, <1>4, <1>5 DEF Next

\* Types, and what holds of each call, its requests and its hook, for any callers
\* and any limit of attempts.
THEOREM CallInvariant == Spec => []Inv
  <1>1. Init => Inv
    BY InitInv
  <1>2. Inv /\ [Next]_vars => Inv'
    BY NextInv
  <1> QED BY <1>1, <1>2, PTL DEF Spec

-----------------------------------------------------------------------------
(* The properties.                                                            *)

\* What has been applied is finite, and no more than what a method allows.
LEMMA AppliedBounds ==
  ASSUME Inv, NEW c \in Callers
  PROVE  /\ IsFiniteSet(Applied(c)) /\ Cardinality(Applied(c)) \in Nat
         /\ call[c].method \in {"POST", "DELETE"} => Cardinality(Applied(c)) <= 1
  <1>1. IsFiniteSet(Attempts)
    BY FS_Interval, AttemptsAssumption DEF Attempts
  <1>2. IsFiniteSet(Applied(c)) /\ Cardinality(Applied(c)) \in Nat
    BY <1>1, FS_Subset, FS_CardinalityType DEF Applied
  <1>3. CallInv(call[c], request[c], hooked[c], db) /\ call[c] \in CallRecord
    BY Types
  <1>4. ASSUME call[c].method \in {"POST", "DELETE"}, NEW a \in Applied(c), NEW b \in Applied(c)
        PROVE  a = b
    <2>1. CASE call[c].method = "DELETE"
      BY <1>3, <2>1 DEF Applied, CallInv
    <2>2. CASE call[c].method = "POST"
      <3>1. call[c].attempt < 1
        BY <1>3, <2>2 DEF CallInv, AttemptLimit
      <3>2. a <= call[c].attempt /\ b <= call[c].attempt /\ a \in Attempts /\ b \in Attempts
        BY <1>3 DEF Applied, CallInv
      <3> QED BY <1>3, <3>1, <3>2, AttemptsAssumption DEF Attempts, CallRecord
    <2> QED BY <1>4, <2>1, <2>2
  <1>5. ASSUME call[c].method \in {"POST", "DELETE"} PROVE Cardinality(Applied(c)) <= 1
    <2>1. CASE Applied(c) = {}
      BY <2>1, FS_EmptySet
    <2>2. CASE Applied(c) # {}
      <3>1. PICK a \in Applied(c) : TRUE
        BY <2>2
      <3>2. Applied(c) = {a}
        BY <1>4, <1>5, <3>1
      <3>3. Cardinality({a}) = 1
        BY FS_Singleton
      <3> QED BY <3>2, <3>3
    <2> QED BY <2>1, <2>2
  <1> QED BY <1>2, <1>5

\* For any callers and attempts: a POST is carried out at most once.
THEOREM PostsLandOnce == Spec => []PostLandsOnce
  <1>1. Inv => PostLandsOnce
    BY AppliedBounds DEF PostLandsOnce
  <1> QED BY <1>1, CallInvariant, PTL

\* For any callers and attempts: the hook of a write that succeeded ran once, after
\* the change that was answered.
THEOREM SuccessCovered == Spec => []SuccessIsCovered
  <1>1. Inv => SuccessIsCovered
    <2> SUFFICES ASSUME Inv, NEW c \in Callers, call[c].pc = "ok", call[c].method # "GET"
                 PROVE  hooked[c].times = 1 /\ hooked[c].at >= request[c][call[c].attempt].ver
      BY DEF SuccessIsCovered
    <2> QED BY Types DEF CallInv
  <1> QED BY <1>1, CallInvariant, PTL

-----------------------------------------------------------------------------
(* The refinement.                                                            *)

phaseOf == [c \in Callers |-> Phase(call[c].pc)]
methodOf == [c \in Callers |-> call[c].method]
changesOf == [c \in Callers |-> Cardinality(Applied(c))]
toldOf == [c \in Callers |-> hooked[c].times]

\* A step of one call that changes nothing in Dolibarr, seen from the promise.
LEMMA SeenStep ==
  ASSUME Inv, NEW c \in Callers, NEW k \in CallRecord, call' = [call EXCEPT ![c] = k],
         \A d \in Callers : Applied(d)' = Applied(d)
  PROVE  /\ phaseOf' = [phaseOf EXCEPT ![c] = Phase(k.pc)]
         /\ methodOf' = [methodOf EXCEPT ![c] = k.method]
         /\ changesOf' = changesOf
  <1>1. call' \in [Callers -> CallRecord] /\ call'[c] = k
        /\ \A d \in Callers : d # c => call'[d] = call[d]
    BY DEF Inv, TypeOK, CallRecord
  <1>2. phaseOf' = [phaseOf EXCEPT ![c] = Phase(k.pc)]
    BY <1>1 DEF phaseOf
  <1>3. methodOf' = [methodOf EXCEPT ![c] = k.method]
    BY <1>1 DEF methodOf
  <1> QED BY <1>2, <1>3 DEF changesOf

\* Nothing changes for the promise.
LEMMA SeenStutter ==
  ASSUME phaseOf' = phaseOf, methodOf' = methodOf, changesOf' = changesOf, toldOf' = toldOf
  PROVE  UNCHANGED Promise!vars
  BY DEF Promise!vars, phaseOf, methodOf, changesOf, toldOf

LEMMA SeenFail ==
  ASSUME NEW c \in Callers, phaseOf[c] = "open", phaseOf' = [phaseOf EXCEPT ![c] = "error"],
         methodOf' = methodOf, changesOf' = changesOf, toldOf' = toldOf
  PROVE  Promise!Next
  BY DEF Promise!Next, Promise!Fail, phaseOf, methodOf, changesOf, toldOf

LEMMA SeenBegin ==
  ASSUME NEW c \in Callers, NEW m \in Methods,
         phaseOf[c] = "idle", phaseOf' = [phaseOf EXCEPT ![c] = "open"],
         methodOf' = [methodOf EXCEPT ![c] = m], changesOf' = changesOf, toldOf' = toldOf
  PROVE  Promise!Next
  BY DEF Promise!Next, Promise!Begin, Promise!Methods, Methods,
         phaseOf, methodOf, changesOf, toldOf

LEMMA SeenSucceed ==
  ASSUME NEW c \in Callers, phaseOf[c] = "open", phaseOf' = [phaseOf EXCEPT ![c] = "ok"],
         methodOf' = methodOf, changesOf' = changesOf,
         toldOf' = IF methodOf[c] = "GET" THEN toldOf
                   ELSE [toldOf EXCEPT ![c] = toldOf[c] + 1]
  PROVE  Promise!Next
  BY DEF Promise!Next, Promise!Succeed, phaseOf, methodOf, changesOf, toldOf

LEMMA SeenChange ==
  ASSUME NEW c \in Callers, phaseOf[c] # "idle", changesOf[c] < Promise!Limit(methodOf[c]),
         changesOf' = [changesOf EXCEPT ![c] = changesOf[c] + 1],
         phaseOf' = phaseOf, methodOf' = methodOf, toldOf' = toldOf
  PROVE  Promise!Next
  BY DEF Promise!Next, Promise!Change, phaseOf, methodOf, changesOf, toldOf

\* Where no request changes, none of what was applied does.
LEMMA AppliedStays ==
  ASSUME request' = request
  PROVE  \A d \in Callers : Applied(d)' = Applied(d)
  BY DEF Applied

\* The client's own steps that send nothing and hook nothing.
LEMMA MoveSeen ==
  ASSUME Inv, NEW c \in Callers, NEW k \in CallRecord, call' = [call EXCEPT ![c] = k],
         UNCHANGED <<request, hooked>>, k.method = call[c].method,
         call[c].pc \in {"ready", "waiting", "backoff"},
         k.pc \in {"ready", "waiting", "backoff", "error"}
  PROVE  Promise!Next \/ UNCHANGED Promise!vars
  <1>1. /\ phaseOf' = [phaseOf EXCEPT ![c] = Phase(k.pc)]
        /\ methodOf' = [methodOf EXCEPT ![c] = k.method]
        /\ changesOf' = changesOf
    BY SeenStep, AppliedStays
  <1>2. toldOf' = toldOf /\ methodOf' = methodOf /\ phaseOf[c] = "open"
    BY <1>1 DEF toldOf, methodOf, phaseOf, Phase
  <1>3. CASE k.pc = "error"
    BY <1>1, <1>2, <1>3, SeenFail DEF Phase
  <1>4. CASE k.pc # "error"
    <2>1. Phase(k.pc) = "open"
      BY <1>4 DEF Phase
    <2>2. phaseOf' = phaseOf
      BY <1>1, <1>2, <2>1 DEF phaseOf
    <2> QED BY <1>1, <1>2, <2>2, SeenStutter
  <1> QED BY <1>3, <1>4

LEMMA NextAttemptRecord ==
  ASSUME Inv, NEW c \in Callers
  PROVE  /\ NextAttempt(c) \in CallRecord /\ NextAttempt(c).method = call[c].method
         /\ NextAttempt(c).pc \in {"backoff", "error"}
  <1>1. call[c] \in CallRecord /\ call[c].attempt < AttemptLimit(call[c].method)
    BY Types DEF CallInv
  <1>2. CASE call[c].attempt + 1 < AttemptLimit(call[c].method)
    <2>1. call[c].attempt + 1 \in Attempts
      BY <1>1, <1>2, LimitIsPositive, AttemptsAssumption DEF CallRecord, Attempts
    <2> QED BY <1>1, <1>2, <2>1 DEF NextAttempt, CallRecord, CallPCs
  <1>3. CASE ~(call[c].attempt + 1 < AttemptLimit(call[c].method))
    BY <1>1, <1>3 DEF NextAttempt, CallRecord, CallPCs
  <1> QED BY <1>2, <1>3

LEMMA OwnSeen ==
  ASSUME Inv, NEW c \in Callers,
         \/ Unsendable(c) \/ NoAnswer(c) \/ AnswerServerError(c) \/ AnswerRefused(c)
         \/ BackoffElapsed(c) \/ BackoffCancelled(c) \/ Cancel(c)
  PROVE  Promise!Next \/ UNCHANGED Promise!vars
  <1>1. call[c] \in CallRecord
    BY Types
  <1>2. CASE NoAnswer(c) \/ AnswerServerError(c)
    <2>1. NextAttempt(c) \in CallRecord /\ NextAttempt(c).method = call[c].method
          /\ NextAttempt(c).pc \in {"backoff", "error"}
      BY NextAttemptRecord
    <2>2. /\ call' = [call EXCEPT ![c] = NextAttempt(c)] /\ UNCHANGED <<request, hooked>>
          /\ call[c].pc \in {"ready", "waiting", "backoff"}
      BY <1>2 DEF NoAnswer, AnswerServerError
    <2> DEFINE k == NextAttempt(c)
    <2>3. /\ k \in CallRecord /\ call' = [call EXCEPT ![c] = k] /\ k.method = call[c].method
          /\ k.pc \in {"ready", "waiting", "backoff", "error"}
      BY <2>1, <2>2
    <2> HIDE DEF k
    <2> QED BY <2>2, <2>3, MoveSeen
  <1>3. CASE Unsendable(c) \/ AnswerRefused(c) \/ BackoffCancelled(c)
    <2> DEFINE k == [call[c] EXCEPT !.pc = "error"]
    <2>1. k \in CallRecord /\ k.pc = "error" /\ k.method = call[c].method
      BY <1>1 DEF CallRecord, CallPCs
    <2>2. /\ call' = [call EXCEPT ![c] = k] /\ UNCHANGED <<request, hooked>>
          /\ call[c].pc \in {"ready", "waiting", "backoff"}
      BY <1>3 DEF Unsendable, AnswerRefused, BackoffCancelled, Inv, TypeOK
    <2> HIDE DEF k
    <2> QED BY <2>1, <2>2, MoveSeen
  <1>4. CASE BackoffElapsed(c)
    <2> DEFINE k == [call[c] EXCEPT !.pc = "ready"]
    <2>1. k \in CallRecord /\ k.pc = "ready" /\ k.method = call[c].method
      BY <1>1 DEF CallRecord, CallPCs
    <2>2. /\ call' = [call EXCEPT ![c] = k] /\ UNCHANGED <<request, hooked>>
          /\ call[c].pc \in {"ready", "waiting", "backoff"}
      BY <1>4 DEF BackoffElapsed, Inv, TypeOK
    <2> HIDE DEF k
    <2> QED BY <2>1, <2>2, MoveSeen
  <1>5. CASE Cancel(c)
    <2> DEFINE k == [call[c] EXCEPT !.cancelled = TRUE]
    <2>1. k \in CallRecord /\ k.pc = call[c].pc /\ k.method = call[c].method
      BY <1>1 DEF CallRecord
    <2>2. /\ call' = [call EXCEPT ![c] = k] /\ UNCHANGED <<request, hooked>>
          /\ call[c].pc \in {"ready", "waiting", "backoff"}
      BY <1>5 DEF Cancel, Inv, TypeOK
    <2> HIDE DEF k
    <2> QED BY <2>1, <2>2, MoveSeen
  <1> QED BY <1>2, <1>3, <1>4, <1>5

LEMMA BeginSeen ==
  ASSUME Inv, NEW c \in Callers, NEW m \in Methods, Begin(c, m)
  PROVE  Promise!Next
  <1> DEFINE k == [call[c] EXCEPT !.pc = "ready", !.method = m]
  <1>1. k \in CallRecord /\ k.pc = "ready" /\ k.method = m
    BY Types DEF CallRecord, CallPCs
  <1>2. call' = [call EXCEPT ![c] = k] /\ UNCHANGED <<request, hooked>> /\ call[c].pc = "idle"
    BY DEF Begin, Inv, TypeOK
  <1> HIDE DEF k
  <1>3. /\ phaseOf' = [phaseOf EXCEPT ![c] = Phase(k.pc)]
        /\ methodOf' = [methodOf EXCEPT ![c] = k.method]
        /\ changesOf' = changesOf
    BY <1>1, <1>2, SeenStep, AppliedStays
  <1>4. toldOf' = toldOf /\ phaseOf[c] = "idle" /\ Phase(k.pc) = "open"
    BY <1>1, <1>2 DEF toldOf, phaseOf, Phase
  <1> QED BY <1>1, <1>3, <1>4, SeenBegin

LEMMA AnswerOkSeen ==
  ASSUME Inv, NEW c \in Callers, AnswerOk(c)
  PROVE  Promise!Next
  <1> DEFINE k == [call[c] EXCEPT !.pc = "ok"]
  <1>1. k \in CallRecord /\ k.pc = "ok" /\ k.method = call[c].method
    BY Types DEF CallRecord, CallPCs
  <1>2. call' = [call EXCEPT ![c] = k] /\ UNCHANGED request /\ call[c].pc = "waiting"
    BY DEF AnswerOk, Inv, TypeOK
  <1> HIDE DEF k
  <1>3. /\ phaseOf' = [phaseOf EXCEPT ![c] = Phase(k.pc)]
        /\ methodOf' = [methodOf EXCEPT ![c] = k.method]
        /\ changesOf' = changesOf
    BY <1>1, <1>2, SeenStep, AppliedStays
  <1>4. phaseOf[c] = "open" /\ Phase(k.pc) = "ok" /\ methodOf' = methodOf
    BY <1>1, <1>2, <1>3 DEF phaseOf, methodOf, Phase
  <1>5. toldOf' = IF methodOf[c] = "GET" THEN toldOf ELSE [toldOf EXCEPT ![c] = toldOf[c] + 1]
    <2>1. CASE call[c].method = "GET"
      BY <2>1 DEF AnswerOk, toldOf, methodOf
    <2>2. CASE call[c].method # "GET"
      <3> DEFINE h == [times |-> hooked[c].times + 1, at |-> db]
      <3>1. hooked' = [hooked EXCEPT ![c] = h] /\ hooked \in [Callers -> HookRecord]
        BY <2>2 DEF AnswerOk, Inv, TypeOK, HookRecord
      <3>2. h.times = hooked[c].times + 1
        OBVIOUS
      <3> HIDE DEF h
      <3> QED BY <2>2, <3>1, <3>2 DEF toldOf, methodOf
    <2> QED BY <2>1, <2>2
  <1> QED BY <1>3, <1>4, <1>5, SeenSucceed

\* What a request on its way may still change, the promise allows.
LEMMA ApplySeen ==
  ASSUME Inv, NEW c \in Callers, NEW a \in Attempts, Apply(c, a)
  PROVE  Promise!Next
  <1>1. /\ call[c] \in CallRecord /\ CallInv(call[c], request[c], hooked[c], db)
        /\ request \in [Callers -> [Attempts -> RequestRecord]]
    BY Types DEF Inv, TypeOK, RequestRecord
  <1>2. phaseOf' = phaseOf /\ methodOf' = methodOf /\ toldOf' = toldOf
    BY DEF Apply, phaseOf, methodOf, toldOf
  <1>3. phaseOf[c] # "idle"
    BY <1>1 DEF Apply, CallInv, phaseOf, Phase
  <1>4. Applied(c)' = Applied(c) \cup {a} /\ a \notin Applied(c)
        /\ \A d \in Callers : d # c => Applied(d)' = Applied(d)
    BY <1>1 DEF Apply, Applied
  <1>5. IsFiniteSet(Applied(c)) /\ Cardinality(Applied(c)) \in Nat
    BY AppliedBounds
  <1>6. Cardinality(Applied(c)') = Cardinality(Applied(c)) + 1
    BY <1>4, <1>5, FS_AddElement
  <1>7. changesOf' = [changesOf EXCEPT ![c] = changesOf[c] + 1]
    BY <1>4, <1>6 DEF changesOf
  <1>8. changesOf[c] < Promise!Limit(methodOf[c])
    <2>1. CASE call[c].method = "PUT"
      <3>1. Applied(c) \cup {a} \in SUBSET Attempts
        BY DEF Applied
      <3>2. IsFiniteSet(Attempts) /\ Cardinality(Attempts) = MaxAttempts
        BY FS_Interval, AttemptsAssumption DEF Attempts
      <3>3. Cardinality(Applied(c) \cup {a}) <= MaxAttempts
        BY <3>1, <3>2, FS_Subset
      <3> QED BY <1>4, <1>5, <1>6, <2>1, <3>3, AttemptsAssumption
              DEF changesOf, methodOf, Promise!Limit
    <2>2. CASE call[c].method \in {"POST", "DELETE"}
      <3>1. Applied(c) = {}
        <4>1. CASE call[c].method = "DELETE"
          BY <4>1 DEF Apply
        <4>2. CASE call[c].method = "POST"
          <5>1. call[c].attempt < 1
            BY <1>1, <4>2 DEF CallInv, AttemptLimit
          <5>2. \A b \in Attempts : request[c][b].state # "unsent" => b = 0
            BY <1>1, <5>1, AttemptsAssumption DEF CallInv, CallRecord, Attempts
          <5>3. a = 0 /\ request[c][0].state = "sent"
            BY <5>2 DEF Apply
          <5> QED BY <5>2, <5>3 DEF Applied
        <4> QED BY <2>2, <4>1, <4>2
      <3>2. Cardinality(Applied(c)) = 0
        BY <3>1, FS_EmptySet
      <3> QED BY <2>2, <3>2 DEF changesOf, methodOf, Promise!Limit
    <2> QED BY <1>1, <2>1, <2>2 DEF CallRecord, Methods, Apply
  <1> QED BY <1>2, <1>3, <1>7, <1>8, SeenChange

LEMMA NextSeen == Inv /\ [Next]_vars => [Promise!Next]_(Promise!vars)
  <1> SUFFICES ASSUME Inv, [Next]_vars PROVE Promise!Next \/ UNCHANGED Promise!vars
    OBVIOUS
  <1>1. ASSUME NEW c \in Callers, NEW m \in Methods, Begin(c, m) PROVE Promise!Next
    BY <1>1, BeginSeen
  <1>2. ASSUME NEW c \in Callers, Send(c) PROVE Promise!Next \/ UNCHANGED Promise!vars
    <2> DEFINE k == [call[c] EXCEPT !.pc = "waiting"]
    <2>1. k \in CallRecord /\ k.pc = "waiting" /\ k.method = call[c].method
      BY Types DEF CallRecord, CallPCs
    <2>2. call' = [call EXCEPT ![c] = k] /\ UNCHANGED hooked /\ call[c].pc = "ready"
      BY <1>2 DEF Send, Inv, TypeOK
    <2>3. \A d \in Callers : Applied(d)' = Applied(d)
      <3>1. request \in [Callers -> [Attempts -> RequestRecord]] /\ call[c].attempt \in Attempts
            /\ request[c][call[c].attempt].state = "unsent"
        BY <2>2, Types DEF Inv, TypeOK, RequestRecord, CallRecord, CallInv, RequestStates
      <3> QED BY <1>2, <3>1 DEF Send, Applied, RequestRecord
    <2> HIDE DEF k
    <2>4. /\ phaseOf' = [phaseOf EXCEPT ![c] = Phase(k.pc)]
          /\ methodOf' = [methodOf EXCEPT ![c] = k.method]
          /\ changesOf' = changesOf
      BY <2>1, <2>2, <2>3, SeenStep
    <2>5. phaseOf' = phaseOf /\ methodOf' = methodOf /\ toldOf' = toldOf
      BY <2>1, <2>2, <2>4 DEF phaseOf, methodOf, toldOf, Phase
    <2> QED BY <2>4, <2>5, SeenStutter
  <1>3. ASSUME NEW c \in Callers, Proceed(c) \/ Cancel(c)
        PROVE  Promise!Next \/ UNCHANGED Promise!vars
    BY <1>2, <1>3, OwnSeen, AnswerOkSeen DEF Proceed, Attempt
  <1>4. ASSUME NEW c \in Callers, NEW a \in Attempts, AnswerUnchanged(c, a)
        PROVE  UNCHANGED Promise!vars
    <2>1. PICK s \in {"refused", "broken", "served"} :
            request' = [request EXCEPT ![c][a].state = s]
      BY <1>4 DEF AnswerUnchanged
    <2>2. request \in [Callers -> [Attempts -> RequestRecord]] /\ request[c][a].state = "sent"
      BY <1>4 DEF Inv, TypeOK, RequestRecord, AnswerUnchanged
    <2>3. \A d \in Callers : Applied(d)' = Applied(d)
      BY <2>1, <2>2 DEF Applied, RequestRecord
    <2>4. UNCHANGED <<call, hooked>>
      BY <1>4 DEF AnswerUnchanged
    <2> QED BY <2>3, <2>4, SeenStutter DEF phaseOf, methodOf, changesOf, toldOf
  <1>5. ASSUME NEW c \in Callers, Handle(c) PROVE Promise!Next \/ UNCHANGED Promise!vars
    BY <1>4, <1>5, ApplySeen DEF Handle
  <1>6. CASE UNCHANGED vars
    BY <1>6, SeenStutter, AppliedStays DEF vars, phaseOf, methodOf, changesOf, toldOf
  <1> QED BY <1>1, <1>3, <1>5, <1>6 DEF Next

LEMMA InitSeen == Init => Promise!Init
  <1> SUFFICES ASSUME Init PROVE Promise!Init
    OBVIOUS
  <1>1. \A c \in Callers : Applied(c) = {}
    BY DEF Init, Applied
  <1>2. \A c \in Callers : Cardinality(Applied(c)) = 0
    BY <1>1, FS_EmptySet
  <1> QED BY <1>2 DEF Init, Promise!Init, Phase

\* For any callers and attempts: through retries, lost answers and late requests the
\* client is what the write tools take it for.
THEOREM ClientKeepsPromise == Spec => KeepsPromise
  <1>1. Init => Promise!Init
    BY InitSeen
  <1>2. Inv /\ [Next]_vars => [Promise!Next]_(Promise!vars)
    BY NextSeen
  <1> QED BY <1>1, <1>2, CallInvariant, PTL DEF Spec, KeepsPromise, Promise!Spec
=============================================================================
