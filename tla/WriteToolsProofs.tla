--------------------------- MODULE WriteToolsProofs ---------------------------
(* What the write tools guarantee for any callers and any inputs, over a REST *)
(* call that keeps its promise.                                               *)
EXTENDS WriteTools, FieldMapperProofs, TLAPS

\* What TypeOK says of one tool call.
CallOK(t, p, m, n) ==
  /\ n <= IF p # "idle" THEN Rest!Limit(m) ELSE 0
  /\ HasData(t.request)
  /\ (t.pc = "idle") <=> (t.request = NoRequest)
  /\ (t.pc = "asked") <=> (p = "open")
  /\ (t.result = "rejected") <=> (t.pc = "done" /\ p = "idle")
  /\ p # "idle" =>
       /\ Accepted(t.request)
       /\ t.body \in Call(t.request).bodies
       /\ m = Call(t.request).method

Functions ==
  /\ DOMAIN tool = Callers
  /\ phase \in [Callers -> {"idle", "open", "ok", "error"}]
  /\ method \in [Callers -> Rest!Methods]
  /\ changes \in [Callers -> Nat]

LEMMA TypeParts ==
  TypeOK <=> Functions /\ \A c \in Callers : CallOK(tool[c], phase[c], method[c], changes[c])
  BY DEF TypeOK, Functions, CallOK, Sent

LEMMA TypePartsNext ==
  TypeOK' <=> (Functions /\ \A c \in Callers : CallOK(tool[c], phase[c], method[c], changes[c]))'
  BY TypeParts, PTL

LEMMA LimitIsNat == \A m \in Rest!Methods : Rest!Limit(m) \in Nat
  BY WriteToolsAssumption DEF Rest!Methods, Rest!Limit

\* Steps change one call.
LEMMA StepOfOne ==
  ASSUME TypeOK, Functions', NEW c \in Callers,
         \A d \in Callers : d # c =>
           /\ tool'[d] = tool[d] /\ phase'[d] = phase[d]
           /\ method'[d] = method[d] /\ changes'[d] = changes[d],
         CallOK(tool'[c], phase'[c], method'[c], changes'[c])
  PROVE  TypeOK'
  <1>1. \A d \in Callers : CallOK(tool'[d], phase'[d], method'[d], changes'[d])
    <2> SUFFICES ASSUME NEW d \in Callers, d # c
                 PROVE  CallOK(tool'[d], phase'[d], method'[d], changes'[d])
      OBVIOUS
    <2>1. CallOK(tool[d], phase[d], method[d], changes[d])
      BY TypeParts
    <2> QED BY <2>1
  <1> QED BY <1>1, TypePartsNext

LEMMA InitType == Init => TypeOK
  <1> SUFFICES ASSUME Init PROVE TypeOK
    OBVIOUS
  <1>1. Functions
    BY DEF Init, Rest!Init, Rest!Methods, Functions
  <1>2. HasData(NoRequest)
    BY DEF HasData, NoRequest
  <1>3. ASSUME NEW c \in Callers PROVE CallOK(tool[c], phase[c], method[c], changes[c])
    BY <1>2 DEF Init, Rest!Init, CallOK
  <1> QED BY <1>1, <1>3, TypeParts

LEMMA NoRequestRejected == ~Accepted(NoRequest)
  BY DEF Accepted, NoRequest

\* A call that was not asked has no REST call.
LEMMA IdleIsUnsent ==
  ASSUME TypeOK, NEW c \in Callers, tool[c].pc = "idle"
  PROVE  phase[c] = "idle" /\ changes[c] = 0
  <1>1. Functions /\ CallOK(tool[c], phase[c], method[c], changes[c])
    BY TypeParts
  <1>2. phase[c] = "idle"
    BY <1>1, NoRequestRejected DEF CallOK
  <1> QED BY <1>1, <1>2 DEF CallOK, Functions

LEMMA RejectType ==
  ASSUME TypeOK, NEW c \in Callers, NEW r \in Requests, Reject(c, r)
  PROVE  TypeOK'
  <1>1. Functions /\ CallOK(tool[c], phase[c], method[c], changes[c])
    BY TypeParts
  <1>2. Functions'
    BY <1>1 DEF Functions, Reject, rest
  <1>3. phase[c] = "idle" /\ changes[c] = 0
    BY IdleIsUnsent DEF Reject
  <1>4. tool'[c] = [pc |-> "done", request |-> r, body |-> NoBody, error |-> "none",
                    result |-> "rejected"]
    BY <1>1 DEF Functions, Reject
  <1>5. r # NoRequest /\ HasData(r)
    BY WriteToolsAssumption
  <1>6. CallOK(tool'[c], phase'[c], method'[c], changes'[c])
    BY <1>3, <1>4, <1>5 DEF CallOK, Reject, rest
  <1> QED BY <1>1, <1>2, <1>6, StepOfOne DEF Functions, Reject, rest

\* What is asked had been accepted, and its body is one of the request's.
LEMMA AskType ==
  ASSUME TypeOK, NEW c \in Callers, NEW r \in Requests, Ask(c, r)
  PROVE  TypeOK'
  <1>1. Functions
    BY TypeParts
  <1>2. PICK b \in Call(r).bodies :
          tool' = [tool EXCEPT ![c] =
            [pc |-> "asked", request |-> r, body |-> b, error |-> "none", result |-> "none"]]
    BY DEF Ask
  <1>3. PICK m \in Rest!Methods :
          /\ method' = [method EXCEPT ![c] = m]
          /\ phase' = [phase EXCEPT ![c] = "open"] /\ changes' = changes
    BY DEF Ask, Rest!Begin
  <1>4. Functions'
    BY <1>1, <1>2, <1>3 DEF Functions
  <1>5. changes[c] = 0 /\ Accepted(r) /\ r # NoRequest /\ HasData(r)
    BY IdleIsUnsent, WriteToolsAssumption DEF Ask
  <1>6. method'[c] = m /\ m = Call(r).method /\ phase'[c] = "open" /\ changes'[c] = 0
    BY <1>1, <1>3, <1>5 DEF Functions, Ask
  <1>7. tool'[c] = [pc |-> "asked", request |-> r, body |-> b, error |-> "none",
                    result |-> "none"]
    BY <1>1, <1>2 DEF Functions
  <1>8. CallOK(tool'[c], phase'[c], method'[c], changes'[c])
    BY <1>5, <1>6, <1>7, LimitIsNat DEF CallOK
  <1> QED BY <1>1, <1>2, <1>3, <1>4, <1>8, StepOfOne DEF Functions

\* A call that was told of keeps its request and its body.
LEMMA TellType ==
  ASSUME TypeOK, NEW c \in Callers, NEW error, NEW result, NEW p \in {"ok", "error"},
         result # "rejected", Tell(c, error, result),
         phase' = [phase EXCEPT ![c] = p], UNCHANGED <<method, changes>>
  PROVE  TypeOK'
  <1>1. Functions /\ CallOK(tool[c], phase[c], method[c], changes[c]) /\ tool[c].pc = "asked"
    BY TypeParts DEF Tell
  <1>2. tool' = [tool EXCEPT ![c] = [pc |-> "done", request |-> tool[c].request,
                   body |-> tool[c].body, error |-> error, result |-> result]]
    BY DEF Tell
  <1>3. Functions'
    BY <1>1, <1>2 DEF Functions
  <1>4. phase[c] = "open" /\ phase'[c] = p
    BY <1>1 DEF CallOK, Functions
  <1>5. tool[c].request # NoRequest
    BY <1>1 DEF CallOK
  <1>6. tool'[c] = [pc |-> "done", request |-> tool[c].request, body |-> tool[c].body,
                    error |-> error, result |-> result]
    BY <1>1, <1>2 DEF Functions
  <1>7. CallOK(tool'[c], phase'[c], method'[c], changes'[c])
    BY <1>1, <1>4, <1>5, <1>6 DEF CallOK
  <1> QED BY <1>1, <1>2, <1>3, <1>7, StepOfOne DEF Functions

\* No error is told as a rejection.
LEMMA ErrorResults ==
  \A r, error : ErrorResult(r, error) \in {"success", "go error", "error result"}
  BY DEF ErrorResult, ListError, ContactError, FreezeError, WriteError

\* The two errors that are told as a success.
LEMMA OnlyTwoErrorsSucceed ==
  ASSUME NEW r, NEW error, ErrorResult(r, error) = "success"
  PROVE  \/ r.tool = "document" /\ r.action = "list" /\ error = "404"
         \/ r.tool = "contacts" /\ error = "no status"
  <1>1. WriteError(error) # "success"
    BY DEF WriteError
  <1> QED BY <1>1 DEF ErrorResult, ListError, ContactError, FreezeError

LEMMA ChangeType ==
  ASSUME TypeOK, NEW c \in Callers, Change(c)
  PROVE  TypeOK'
  <1>1. Functions /\ CallOK(tool[c], phase[c], method[c], changes[c])
    BY TypeParts
  <1>2. /\ phase[c] # "idle" /\ changes[c] < Rest!Limit(method[c])
        /\ changes' = [changes EXCEPT ![c] = changes[c] + 1]
        /\ UNCHANGED <<tool, phase, method>>
    BY DEF Change, Rest!Change
  <1>3. Functions' /\ changes'[c] = changes[c] + 1
    BY <1>1, <1>2 DEF Functions
  <1>4. changes[c] \in Nat /\ Rest!Limit(method[c]) \in Nat
    BY <1>1, LimitIsNat DEF Functions
  <1>5. CallOK(tool'[c], phase'[c], method'[c], changes'[c])
    BY <1>1, <1>2, <1>3, <1>4 DEF CallOK
  <1> QED BY <1>1, <1>2, <1>3, <1>5, StepOfOne DEF Functions

LEMMA NextType == TypeOK /\ [Next]_vars => TypeOK'
  <1> SUFFICES ASSUME TypeOK, [Next]_vars PROVE TypeOK'
    OBVIOUS
  <1>1. ASSUME NEW c \in Callers, NEW r \in Requests, Reject(c, r) \/ Ask(c, r) PROVE TypeOK'
    BY <1>1, RejectType, AskType
  <1>2. ASSUME NEW c \in Callers, Success(c) PROVE TypeOK'
    BY <1>2, TellType DEF Success, Rest!Succeed
  <1>3. ASSUME NEW c \in Callers, Failure(c) PROVE TypeOK'
    BY <1>3, TellType, ErrorResults DEF Failure, Rest!Fail
  <1>4. ASSUME NEW c \in Callers, Change(c) PROVE TypeOK'
    BY <1>4, ChangeType
  <1>5. CASE UNCHANGED vars
    BY <1>5, TypeParts, TypePartsNext DEF vars, Functions
  <1> QED BY <1>1, <1>2, <1>3, <1>4, <1>5 DEF Next

\* For any callers and inputs: what is on its way had been accepted, its body and
\* method are the request's, what was rejected is not on its way.
THEOREM ToolTypes == Spec => []TypeOK
  <1>1. Init => TypeOK
    BY InitType
  <1>2. TypeOK /\ [Next]_vars => TypeOK'
    BY NextType
  <1> QED BY <1>1, <1>2, PTL DEF Spec

\* For any callers and inputs: no tool creates, adds, attaches, freezes or moves a
\* document twice in one call.
THEOREM ToolsActOnce == Spec => []OnceOnly
  <1>1. TypeOK => OnceOnly
    <2> SUFFICES ASSUME TypeOK, NEW c \in Callers, Sent(c),
                        \/ tool[c].request.tool \in {"create", "action", "freeze"}
                        \/ tool[c].request.tool = "line" /\ tool[c].request.action = "add"
                        \/ tool[c].request.tool = "document" /\ tool[c].request.action = "upload"
                 PROVE  changes[c] <= 1
      BY DEF OnceOnly
    <2>1. changes[c] <= Rest!Limit(method[c]) /\ method[c] = Call(tool[c].request).method
      BY DEF TypeOK
    <2>2. Call(tool[c].request).method = "POST"
      BY DEF Call, CreateCall, ActionCall, FreezeCall, LineCall, DocumentCall
    <2> QED BY <2>1, <2>2 DEF Rest!Limit
  <1> QED BY <1>1, ToolTypes, PTL

\* For any callers and inputs: what is told as a success succeeded, but for the
\* folder that has no files and the contact whose error is dropped.
THEOREM FailuresAreReported == Spec => []FailuresReported
  <1> DEFINE Reported(t, p) ==
        t.result = "success" =>
          \/ p = "ok"
          \/ (t.request.tool = "document" /\ t.request.action = "list" /\ t.error = "404")
          \/ (t.request.tool = "contacts" /\ t.error = "no status")
  <1>1. ASSUME Init PROVE FailuresReported
    <2>1. ASSUME NEW c \in Callers PROVE tool[c].result = "none"
      BY <1>1 DEF Init
    <2> QED BY <2>1 DEF FailuresReported
  <1>2. ASSUME TypeOK, [Next]_vars, FailuresReported PROVE FailuresReported'
    <2> SUFFICES ASSUME NEW c \in Callers PROVE Reported(tool'[c], phase'[c])
      BY DEF FailuresReported
    <2>1. Functions /\ Reported(tool[c], phase[c])
      BY <1>2, TypeParts DEF FailuresReported
    <2>2. CASE UNCHANGED vars
      BY <2>1, <2>2 DEF vars
    <2>3. ASSUME NEW d \in Callers, NEW r \in Requests, Reject(d, r)
          PROVE  Reported(tool'[c], phase'[c])
      BY <2>1, <2>3 DEF Functions, Reject, rest
    <2>4. ASSUME NEW d \in Callers, NEW r \in Requests, Ask(d, r)
          PROVE  Reported(tool'[c], phase'[c])
      <3>1. PICK b \in Call(r).bodies :
              tool' = [tool EXCEPT ![d] =
                [pc |-> "asked", request |-> r, body |-> b, error |-> "none", result |-> "none"]]
        BY <2>4 DEF Ask
      <3>2. phase' = [phase EXCEPT ![d] = "open"]
        BY <2>4 DEF Ask, Rest!Begin
      <3>3. CASE c # d
        BY <2>1, <3>1, <3>2, <3>3 DEF Functions
      <3>4. CASE c = d
        <4>1. tool'[c].result = "none"
          BY <2>1, <3>1, <3>4 DEF Functions
        <4> QED BY <4>1
      <3> QED BY <3>3, <3>4
    <2>5. ASSUME NEW d \in Callers, Success(d) PROVE Reported(tool'[c], phase'[c])
      BY <2>1, <2>5 DEF Functions, Success, Tell, Rest!Succeed
    <2>6. ASSUME NEW d \in Callers, Failure(d) PROVE Reported(tool'[c], phase'[c])
      <3>1. PICK error \in Errors : Tell(d, error, ErrorResult(tool[d].request, error))
        BY <2>6 DEF Failure
      <3>2. phase' = [phase EXCEPT ![d] = "error"] /\ phase[d] = "open"
        BY <2>6 DEF Failure, Rest!Fail
      <3>3. CASE c # d
        BY <2>1, <3>1, <3>2, <3>3 DEF Functions, Tell
      <3>4. CASE c = d
        <4>1. tool'[c] = [pc |-> "done", request |-> tool[c].request, body |-> tool[c].body,
                          error |-> error, result |-> ErrorResult(tool[c].request, error)]
          BY <2>1, <3>1, <3>4 DEF Functions, Tell
        <4>2. /\ tool'[c].result = ErrorResult(tool[c].request, error)
              /\ tool'[c].error = error /\ tool'[c].request = tool[c].request
          BY <4>1
        <4> HIDE DEF Reported
        <4> QED BY <4>2, OnlyTwoErrorsSucceed DEF Reported
      <3> QED BY <3>3, <3>4
    <2>7. ASSUME NEW d \in Callers, Change(d) PROVE Reported(tool'[c], phase'[c])
      BY <2>1, <2>7 DEF Change, Rest!Change
    <2> QED BY <1>2, <2>2, <2>3, <2>4, <2>5, <2>6, <2>7 DEF Next
  <1> QED BY <1>1, <1>2, ToolTypes, PTL DEF Spec

-----------------------------------------------------------------------------
(* The bodies.                                                                *)

LEMMA StrippedData ==
  ASSUME NEW r, IsData(r.data)
  PROVE  /\ IsData(Stripped(r))
         /\ Stripped(r).fields = StripAutoNumberRef(r.entity, r.data.fields)
         /\ Stripped(r).extrafields = r.data.extrafields
         /\ Stripped(r).hasExtra = r.data.hasExtra
         /\ Stripped(r).lines = r.data.lines
  BY DEF Stripped, IsData

\* What a call has sent says its data, or what StripAutoNumberRef leaves of it.
LEMMA SentBody ==
  ASSUME TypeOK, NEW c \in Callers, Sent(c), NEW r, r = tool[c].request,
         NEW body, body = tool[c].body, Translated(r)
  PROVE  /\ IsData(r.data)
         /\ r.tool = "create" =>
              /\ r.entity \in ValidEntities
              /\ ValidateCreate(r.entity, Stripped(r))
              /\ Sends(r.entity, Stripped(r), body) /\ SaysLines(Stripped(r), body.lines)
         /\ r.tool = "update" =>
              Sends(r.entity, r.data, body) /\ SaysLines(r.data, body.lines)
         /\ r.tool = "line" =>
              Sends("line", r.data, body) /\ SaysLines(r.data, body.lines)
  <1>1. IsData(r.data) /\ Accepted(r) /\ body \in Call(r).bodies
    BY DEF TypeOK, HasData, Translated
  <1>2. CASE r.tool = "create"
    <2>1. AcceptsCreate(r) /\ body \in MapEntityToDolibarr(r.entity, Stripped(r))
      BY <1>1, <1>2 DEF Accepted, Call, CreateCall
    <2> QED BY <1>1, <1>2, <2>1, StrippedData, MappedEntity DEF AcceptsCreate
  <1>3. CASE r.tool = "update"
    <2>1. body \in MapEntityToDolibarr(r.entity, r.data)
      BY <1>1, <1>3 DEF Call, UpdateCall
    <2> QED BY <1>1, <1>3, <2>1, MappedEntity
  <1>4. CASE r.tool = "line"
    <2>1. body \in MapToDolibarr(r.data)
      BY <1>1, <1>4 DEF Accepted, AcceptsLine, Call, LineCall, Translated
    <2> QED BY <1>1, <1>4, <2>1, MappedData
  <1> QED BY <1>2, <1>3, <1>4 DEF Translated

LEMMA RefName ==
  ASSUME NEW entity, NEW k
  PROVE  SentName(entity, k) = "ref" <=> k = "ref"
  BY OwnNames DEF SentName

\* For any callers and inputs: Dolibarr numbers its documents.
THEOREM DolibarrNumbers == Spec => []NumberedByDolibarr
  <1>1. TypeOK => NumberedByDolibarr
    <2> SUFFICES ASSUME TypeOK, NEW c \in Callers, Sent(c), NEW r, r = tool[c].request,
                        NEW body, body = tool[c].body,
                        r.tool = "create", r.entity \in AutoNumbered
                 PROVE  /\ ("ref" \in DOMAIN body.fields) <=> (r.entity \in {"projects", "tasks"})
                        /\ "ref" \in DOMAIN body.fields => body.fields["ref"] = "auto"
      BY DEF NumberedByDolibarr
    <2>1. IsData(r.data) /\ Sends(r.entity, Stripped(r), body)
      BY SentBody DEF Translated
    <2>2. Stripped(r).fields = StripAutoNumberRef(r.entity, r.data.fields)
      BY <2>1, StrippedData
    <2>3. /\ "ref" \in DOMAIN body.fields <=> "ref" \in Given(Stripped(r))
          /\ "ref" \in DOMAIN body.fields =>
               body.fields["ref"] = Converted("ref", Stripped(r).fields["ref"])
      BY <2>1, RefName DEF Sends
    <2>4. "ref" \in Given(Stripped(r)) <=> "ref" \in DOMAIN Stripped(r).fields
      BY DEF Given
    <2>5. CASE r.entity \in ExplicitAutoRef
      <3>1. "ref" \in DOMAIN Stripped(r).fields /\ Stripped(r).fields["ref"] = "auto"
        BY <2>2, <2>5 DEF StripAutoNumberRef
      <3>2. Converted("ref", "auto") = "auto"
        BY DEF Converted, ToTimestamp
      <3> QED BY <2>3, <2>4, <2>5, <3>1, <3>2 DEF ExplicitAutoRef
    <2>6. CASE r.entity \notin ExplicitAutoRef
      <3>1. "ref" \notin DOMAIN Stripped(r).fields
        BY <2>2, <2>6 DEF StripAutoNumberRef
      <3> QED BY <2>3, <2>4, <2>6, <3>1 DEF ExplicitAutoRef
    <2> QED BY <2>5, <2>6
  <1> QED BY <1>1, ToolTypes, PTL

\* Stripping changes the ref alone.
LEMMA OnlyRefStripped ==
  ASSUME NEW entity, NEW fields
  PROVE  /\ DOMAIN StripAutoNumberRef(entity, fields) \subseteq DOMAIN fields \cup {"ref"}
         /\ DOMAIN fields \ {"ref"} \subseteq DOMAIN StripAutoNumberRef(entity, fields)
         /\ \A k \in DOMAIN fields \ {"ref"} : StripAutoNumberRef(entity, fields)[k] = fields[k]
         /\ entity \notin AutoNumbered => StripAutoNumberRef(entity, fields) = fields
  <1> DEFINE f == StripAutoNumberRef(entity, fields)
  <1>1. CASE entity \notin AutoNumbered
    <2>1. f = fields
      BY <1>1 DEF StripAutoNumberRef, AutoNumbered, ExplicitAutoRef
    <2> QED BY <1>1, <2>1
  <1>2. CASE entity \in AutoNumbered /\ entity \in ExplicitAutoRef
    <2>1. f = [k \in DOMAIN fields \cup {"ref"} |-> IF k = "ref" THEN "auto" ELSE fields[k]]
      BY <1>2 DEF StripAutoNumberRef
    <2> QED BY <1>2, <2>1
  <1>3. CASE entity \in AutoNumbered /\ entity \notin ExplicitAutoRef
    <2>1. f = [k \in DOMAIN fields \ {"ref"} |-> fields[k]]
      BY <1>3 DEF StripAutoNumberRef
    <2> QED BY <1>3, <2>1
  <1> QED BY <1>1, <1>2, <1>3

\* Every one of the keys is renamed to n, and n is no name that depends on the entity.
NamesFor(keys, n) == \A k \in keys : DolibarrName(k) = n
SentAs(entity, n) == \A k : SentName(entity, k) = n <=> DolibarrName(k) = n

\* A field that a check looks for arrives, and with its value where the caller
\* gave it under one name.
LEMMA ValueArrives ==
  ASSUME NEW entity, NEW part, NEW body, Sends(entity, part, body),
         NEW n, n \notin DateFields, n # "array_options",
         NEW keys, HasValue(part.fields, keys), NamesFor(keys, n), SentAs(entity, n)
  PROVE  /\ n \in DOMAIN body.fields
         /\ SoleName(part, n) => HasValue(body.fields, {n})
  <1>1. PICK key \in keys \cap DOMAIN part.fields : part.fields[key] \notin {"null", "", "0"}
    BY DEF HasValue
  <1>2. DolibarrName(key) = n /\ key \in Given(part)
    BY <1>1, OwnNames DEF Given, NamesFor
  <1>3. n \in DOMAIN body.fields
    BY <1>2 DEF Sends, SentAs
  <1>4. PICK k \in Given(part) :
          SentName(entity, k) = n /\ body.fields[n] = Converted(k, part.fields[k])
    BY <1>3 DEF Sends
  <1>5. DolibarrName(k) = n /\ k \in DOMAIN part.fields
    BY <1>4 DEF Given, SentAs
  <1>6. ASSUME SoleName(part, n) PROVE HasValue(body.fields, {n})
    <2>1. k = key
      BY <1>1, <1>2, <1>5, <1>6 DEF SoleName
    <2>2. body.fields[n] = part.fields[key]
      BY <1>4, <1>5, <2>1 DEF Converted
    <2> QED BY <1>1, <1>3, <2>2 DEF HasValue
  <1> QED BY <1>3, <1>6

LEMMA OptionArrives ==
  ASSUME NEW entity, NEW part, NEW body, Sends(entity, part, body),
         NEW x \in DOMAIN part.extrafields
  PROVE  /\ x.name \in DOMAIN body.options
         /\ SoleOption(part, x.name) => body.options[x.name] = part.extrafields[x]
  <1>1. x.name \in DOMAIN body.options
    BY DEF Sends, SaysOptions
  <1>2. PICK y \in DOMAIN part.extrafields :
          y.name = x.name /\ body.options[x.name] = part.extrafields[y]
    BY <1>1 DEF Sends, SaysOptions
  <1> QED BY <1>1, <1>2 DEF SoleOption

\* The number of a document is not among the names of its other fields.
LEMMA SoleNameStripped ==
  ASSUME NEW r, IsData(r.data), NEW n, n # "ref", SoleName(r.data, n)
  PROVE  SoleName(Stripped(r), n)
  <1>1. DOMAIN Stripped(r).fields \subseteq DOMAIN r.data.fields \cup {"ref"}
    BY StrippedData, OnlyRefStripped
  <1>2. \A k : DolibarrName(k) = n => k # "ref"
    BY OwnNames
  <1> QED BY <1>1, <1>2 DEF SoleName

\* For any callers and inputs: no document is created hanging from nothing,
\* although the checks see the caller's names and Dolibarr its own.
THEOREM CreatesAreAnchored == Spec => []CreatesAnchored
  <1>1. TypeOK => CreatesAnchored
    <2> SUFFICES ASSUME TypeOK, NEW c \in Callers, Sent(c), NEW r, r = tool[c].request,
                        NEW body, body = tool[c].body, r.tool = "create"
                 PROVE  /\ \A n \in Anchors(r.entity) :
                             /\ n \in DOMAIN body.fields
                             /\ SoleName(r.data, n) => HasValue(body.fields, {n})
                        /\ r.entity = "proposals" =>
                             /\ "tos_attached" \in DOMAIN body.options
                             /\ SoleOption(r.data, "tos_attached") =>
                                  body.options["tos_attached"] \in TOSAttachedValues
      BY DEF CreatesAnchored
    <2> PICK part : part = Stripped(r)
      OBVIOUS
    <2>1. /\ IsData(r.data) /\ Sends(r.entity, part, body)
          /\ ValidateCreate(r.entity, part) /\ part.extrafields = r.data.extrafields
      BY SentBody, StrippedData DEF Translated
    <2>2. ASSUME NEW n \in {"socid", "fk_project"}, NEW keys, HasValue(part.fields, keys),
                 NamesFor(keys, n)
          PROVE  /\ n \in DOMAIN body.fields
                 /\ SoleName(r.data, n) => HasValue(body.fields, {n})
      <3>1. SentAs(r.entity, n)
        BY <2>2 DEF SentName, SentAs
      <3>2. n \notin DateFields /\ n # "array_options" /\ n # "ref"
        BY DEF DateFields
      <3>3. /\ n \in DOMAIN body.fields
            /\ SoleName(part, n) => HasValue(body.fields, {n})
        BY <2>1, <2>2, <3>1, <3>2, ValueArrives
      <3> QED BY <2>1, <3>2, <3>3, SoleNameStripped
    <2>3. ASSUME r.entity \in {"proposals", "orders", "purchases"}
          PROVE  \E keys : HasValue(part.fields, keys) /\ NamesFor(keys, "socid")
      <3>1. NamesFor({"customer_id", "socid"}, "socid") /\ NamesFor({"supplier_id", "socid"}, "socid")
        BY PartyNames DEF NamesFor
      <3> QED BY <2>1, <2>3, <3>1 DEF ValidateCreate
    <2>4. ASSUME r.entity = "tasks"
          PROVE  \E keys : HasValue(part.fields, keys) /\ NamesFor(keys, "fk_project")
      <3>1. NamesFor({"project_id", "fk_project"}, "fk_project")
        BY PartyNames DEF NamesFor
      <3> QED BY <2>1, <2>4, <3>1 DEF ValidateCreate
    <2>5. ASSUME NEW n \in Anchors(r.entity)
          PROVE  /\ n \in DOMAIN body.fields
                 /\ SoleName(r.data, n) => HasValue(body.fields, {n})
      <3>1. \/ n = "socid" /\ r.entity \in {"proposals", "orders", "purchases"}
            \/ n = "fk_project" /\ r.entity = "tasks"
        BY <2>5 DEF Anchors
      <3> QED BY <2>2, <2>3, <2>4, <3>1
    <2>6. ASSUME r.entity = "proposals"
          PROVE  /\ "tos_attached" \in DOMAIN body.options
                 /\ SoleOption(r.data, "tos_attached") =>
                      body.options["tos_attached"] \in TOSAttachedValues
      <3>1. TOSName \in DOMAIN part.extrafields
            /\ part.extrafields[TOSName] \in TOSAttachedValues
        BY <2>1, <2>6 DEF ValidateCreate, ValidTOS, TOSPresent
      <3>2. TOSName.name = "tos_attached"
        BY DEF TOSName
      <3>3. SoleOption(r.data, "tos_attached") => SoleOption(part, "tos_attached")
        BY <2>1 DEF SoleOption
      <3>4. /\ TOSName.name \in DOMAIN body.options
            /\ SoleOption(part, TOSName.name) =>
                 body.options[TOSName.name] = part.extrafields[TOSName]
        BY <2>1, <3>1, OptionArrives
      <3> QED BY <3>1, <3>2, <3>3, <3>4
    <2> QED BY <2>5, <2>6
  <1> QED BY <1>1, ToolTypes, PTL

LEMMA ExpectedIsSent ==
  ASSUME NEW entity, NEW k
  PROVE  Expected(entity, k) = SentName(entity, k)
  BY DEF Expected, SentName, NativeDescriptionEntities

\* A description is no date, so that it does not matter under which name.
LEMMA ConvertedIsReadable ==
  ASSUME NEW entity, NEW k, NEW v
  PROVE  Converted(k, v) = Readable(SentName(entity, k), v)
  BY DEF Converted, ToTimestamp, Readable, SentName, DateFields

\* The body carries all of a part of which it was given all but the names in ours.
LEMMA PartCarried ==
  ASSUME NEW entity, NEW whole, NEW part, NEW body, NEW ours \in SUBSET {"ref"},
         Sends(entity, part, body), part.hasExtra = whole.hasExtra,
         part.extrafields = whole.extrafields,
         DOMAIN part.fields \ ours = DOMAIN whole.fields \ ours,
         \A k \in DOMAIN whole.fields \ ours : part.fields[k] = whole.fields[k]
  PROVE  Carries(entity, body, whole, ours)
  <1> PICK given : given = DOMAIN whole.fields
                             \ (ours \cup (IF whole.hasExtra THEN {"array_options"} ELSE {}))
    OBVIOUS
  <1>1. \A k : k \in given <=> k \in Given(part) /\ k \notin ours
    BY DEF Given
  <1>2. \A k : SentName(entity, k) \in ours <=> k \in ours
    <2>1. \A k : SentName(entity, k) = "ref" <=> k = "ref"
      BY RefName
    <2>2. ours = {} \/ ours = {"ref"}
      OBVIOUS
    <2> QED BY <2>1, <2>2
  <1>3. DOMAIN body.fields \ ours = {Expected(entity, k) : k \in given}
    <2>1. ASSUME NEW n
          PROVE  n \in DOMAIN body.fields \ ours <=> \E k \in given : n = SentName(entity, k)
      BY <1>1, <1>2 DEF Sends
    <2> QED BY <2>1, ExpectedIsSent
  <1>4. ASSUME NEW n \in DOMAIN body.fields \ ours
        PROVE  \E k \in given :
                 Expected(entity, k) = n /\ body.fields[n] = Readable(n, whole.fields[k])
    <2>1. PICK k \in Given(part) :
            SentName(entity, k) = n /\ body.fields[n] = Converted(k, part.fields[k])
      BY DEF Sends
    <2>2. k \in given /\ part.fields[k] = whole.fields[k]
      BY <1>1, <1>2, <2>1
    <2> QED BY <2>1, <2>2, ExpectedIsSent, ConvertedIsReadable
  <1>5. SaysOptions(whole.extrafields, body.options)
    BY DEF Sends
  <1> QED BY <1>3, <1>4, <1>5 DEF Carries, SaysOptions

\* For any callers and inputs: nothing the caller gave is lost on its way.
THEOREM NothingIsLost == Spec => []NothingLost
  <1>1. ASSUME TypeOK, NEW c \in Callers, Sent(c), NEW r, r = tool[c].request,
               NEW body, body = tool[c].body, Translated(r)
        PROVE  Carries(Document(r), body, r.data,
                 IF r.tool = "create" /\ r.entity \in AutoNumbered THEN {"ref"} ELSE {})
    <2>1. IsData(r.data)
      BY <1>1, SentBody
    <2>2. CASE r.tool = "create"
      <3> PICK ours : ours = IF r.entity \in AutoNumbered THEN {"ref"} ELSE {}
        OBVIOUS
      <3> PICK part : part = Stripped(r)
        OBVIOUS
      <3>1. /\ Sends(r.entity, part, body)
            /\ part.hasExtra = r.data.hasExtra /\ part.extrafields = r.data.extrafields
            /\ part.fields = StripAutoNumberRef(r.entity, r.data.fields)
        BY <1>1, <2>1, <2>2, SentBody, StrippedData
      <3>2. /\ DOMAIN part.fields \ ours = DOMAIN r.data.fields \ ours
            /\ \A k \in DOMAIN r.data.fields \ ours : part.fields[k] = r.data.fields[k]
        BY <3>1, OnlyRefStripped
      <3>3. ours \in SUBSET {"ref"}
        OBVIOUS
      <3>4. Carries(r.entity, body, r.data, ours)
        BY <3>1, <3>2, <3>3, PartCarried
      <3> QED BY <2>2, <3>4 DEF Document
    <2>3. CASE r.tool \in {"update", "line"}
      <3>1. Sends(Document(r), r.data, body)
        BY <1>1, <2>3, SentBody DEF Document
      <3>2. Carries(Document(r), body, r.data, {})
        BY <1>1, <2>1, <3>1, PartCarried
      <3> QED BY <2>3, <3>2
    <2> QED BY <1>1, <2>2, <2>3 DEF Translated
  <1>2. ASSUME TypeOK, NEW c \in Callers, Sent(c), NEW r, r = tool[c].request,
               NEW body, body = tool[c].body, Translated(r)
        PROVE  /\ Len(body.lines) = Len(r.data.lines)
               /\ \A i \in DOMAIN r.data.lines :
                    Carries("line", body.lines[i], r.data.lines[i], {})
    <2>1. IsData(r.data)
      BY <1>2, SentBody
    <2>2. SaysLines(r.data, body.lines)
      <3>1. CASE r.tool = "create"
        <4>1. SaysLines(Stripped(r), body.lines)
          BY <1>2, <3>1, SentBody
        <4> QED BY <2>1, <4>1, StrippedData DEF SaysLines
      <3>2. CASE r.tool \in {"update", "line"}
        BY <1>2, <3>2, SentBody
      <3> QED BY <1>2, <3>1, <3>2 DEF Translated
    <2>3. ASSUME NEW i \in DOMAIN r.data.lines
          PROVE  Carries("line", body.lines[i], r.data.lines[i], {})
      <3>1. Sends("line", r.data.lines[i], body.lines[i])
        BY <2>2 DEF SaysLines
      <3> QED BY <2>3, <3>1, PartCarried
    <2> QED BY <2>2, <2>3 DEF SaysLines
  <1>3. TypeOK => NothingLost
    BY <1>1, <1>2 DEF NothingLost
  <1> QED BY <1>3, ToolTypes, PTL
=============================================================================
