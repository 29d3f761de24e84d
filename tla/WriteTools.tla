------------------------------ MODULE WriteTools ------------------------------
(* The tools that write through the REST API: create, update, delete, line,   *)
(* action, document, contacts (update) and proposal_freeze_version. A handler *)
(* checks its input, builds one request, and turns the answer into a result.  *)
(* The REST call is WriteCall, the promise that RestClient keeps: it may      *)
(* change Dolibarr without an answer, and after the handler has returned.     *)
EXTENDS FieldMapper

CONSTANTS
  Callers,      \* tool calls in flight, one goroutine each
  Requests,     \* the inputs a run explores
  MostChanges   \* attempts of a PUT

VARIABLES
  tool,                          \* each call: its request, the body sent, the result
  phase, method, changes, told   \* of its REST call, see WriteCall

NoRequest == [tool |-> "none"]

\* The data of a document or of a line, where a tool takes one.
HasData(r) == r.tool \in {"create", "update", "line"} => IsData(r.data)

ASSUME WriteToolsAssumption ==
  /\ MostChanges \in Nat
  /\ NoRequest \notin Requests
  /\ \A r \in Requests : HasData(r)

rest == <<phase, method, changes, told>>
vars == <<tool, phase, method, changes, told>>

Rest == INSTANCE WriteCall

-----------------------------------------------------------------------------
(* What a handler accepts.                                                    *)

Moduleparts == ValidEntities \ {"warehouses"}

Stripped(r) == [r.data EXCEPT !.fields = StripAutoNumberRef(r.entity, @)]

AcceptsCreate(r) == r.entity \in ValidEntities /\ ValidateCreate(r.entity, Stripped(r))

AcceptsUpdate(r) == r.entity \in ValidEntities

AcceptsDelete(r) == r.entity \in ValidEntities

AcceptsLine(r) ==
  /\ r.entity \in ValidEntities
  /\ r.action \in {"add", "update", "delete"}
  /\ r.action # "add" => r.line_id # 0
  /\ r.action # "delete" => r.hasData

AcceptsAction(r) ==
  /\ r.entity \in DOMAIN ValidActions
  /\ r.action \in ValidActions[r.entity]
  /\ r.entity = "proposals" /\ r.action = "close" => r.status \in {2, 3}

\* The content is nothing, base64, or something else.
AcceptsDocument(r) ==
  /\ r.entity \in Moduleparts
  /\ \/ /\ r.action = "upload"
        /\ r.ref # "" /\ r.filename # ""
        /\ r.content = "base64"
        /\ r.subdir = ""
     \/ /\ r.action = "list"
        /\ r.id # 0 \/ r.ref # ""

AcceptsContacts(r) ==
  r.action = "update" /\ r.id > 0 /\ r.hasData /\ DOMAIN r.data.fields # {}

\* A note of blanks is "" here.
AcceptsFreeze(r) == r.id > 0 /\ r.note # ""

Accepted(r) ==
  \/ r.tool = "create" /\ AcceptsCreate(r)
  \/ r.tool = "update" /\ AcceptsUpdate(r)
  \/ r.tool = "delete" /\ AcceptsDelete(r)
  \/ r.tool = "line" /\ AcceptsLine(r)
  \/ r.tool = "action" /\ AcceptsAction(r)
  \/ r.tool = "document" /\ AcceptsDocument(r)
  \/ r.tool = "contacts" /\ AcceptsContacts(r)
  \/ r.tool = "freeze" /\ AcceptsFreeze(r)

-----------------------------------------------------------------------------
(* What it sends.                                                             *)

Plain(fields) == [fields |-> fields, options |-> <<>>, lines |-> <<>>]
NoBody == Plain(<<>>)

\* The data of a create is an object in the input schema: it is never nil.
CreateCall(r) == [method |-> "POST", bodies |-> MapEntityToDolibarr(r.entity, Stripped(r))]

UpdateCall(r) == [method |-> "PUT", bodies |-> MapEntityToDolibarr(r.entity, r.data)]

DeleteCall(r) == [method |-> "DELETE", bodies |-> {NoBody}]

\* Mutant of LineCall: a line is put where it may be already.
BugLineCallPut(r) ==
  IF r.action = "delete" THEN [method |-> "DELETE", bodies |-> {NoBody}]
  ELSE [method |-> "PUT", bodies |-> MapToDolibarr(r.data)]

LineCall(r) ==
  CASE r.action = "add" -> [method |-> "POST", bodies |-> MapToDolibarr(r.data)]
    [] r.action = "update" -> [method |-> "PUT", bodies |-> MapToDolibarr(r.data)]
    [] r.action = "delete" -> [method |-> "DELETE", bodies |-> {NoBody}]

ActionBody(r) ==
  CASE r.entity = "proposals" /\ r.action = "close" ->
         Plain(IF r.note = "" THEN [status |-> r.status]
               ELSE [status |-> r.status, note_private |-> r.note])
    [] r.warehouse_id > 0 -> Plain([idwarehouse |-> r.warehouse_id])
    [] OTHER -> Plain([notrigger |-> 0])

ActionCall(r) == [method |-> "POST", bodies |-> {ActionBody(r)}]

UploadBody(r) ==
  Plain([filename |-> r.filename, modulepart |-> r.entity, ref |-> r.ref,
         filecontent |-> r.content, fileencoding |-> "base64",
         overwriteifexists |-> IF r.overwrite THEN 1 ELSE 0])

DocumentCall(r) ==
  IF r.action = "list" THEN [method |-> "GET", bodies |-> {NoBody}]
  ELSE [method |-> "POST", bodies |-> {UploadBody(r)}]

\* The data of a contact goes out under the names the caller used.
ContactCall(r) == [method |-> "PUT", bodies |-> {Plain(r.data.fields)}]

FreezeCall(r) == [method |-> "POST", bodies |-> {Plain([note |-> r.note])}]

\* The REST call of each handler: its method, and the bodies it may have.
Call(r) ==
  CASE r.tool = "create" -> CreateCall(r)
    [] r.tool = "update" -> UpdateCall(r)
    [] r.tool = "delete" -> DeleteCall(r)
    [] r.tool = "line" -> LineCall(r)
    [] r.tool = "action" -> ActionCall(r)
    [] r.tool = "document" -> DocumentCall(r)
    [] r.tool = "contacts" -> ContactCall(r)
    [] r.tool = "freeze" -> FreezeCall(r)

\* Invalid input is an error that costs no request.
Reject(c, r) ==
  /\ tool[c].pc = "idle"
  /\ ~Accepted(r)
  /\ tool' = [tool EXCEPT ![c] =
       [pc |-> "done", request |-> r, body |-> NoBody, error |-> "none", result |-> "rejected"]]
  /\ UNCHANGED rest

\* Mutant of Ask: the checks are made of the answer.
BugAskUnchecked(c, r) ==
  /\ tool[c].pc = "idle"
  /\ r.tool # "line"
  /\ \E b \in Call(r).bodies : tool' = [tool EXCEPT ![c] =
       [pc |-> "asked", request |-> r, body |-> b, error |-> "none", result |-> "none"]]
  /\ Rest!Begin(c) /\ method'[c] = Call(r).method

Ask(c, r) ==
  /\ tool[c].pc = "idle"
  /\ Accepted(r)
  /\ \E b \in Call(r).bodies : tool' = [tool EXCEPT ![c] =
       [pc |-> "asked", request |-> r, body |-> b, error |-> "none", result |-> "none"]]
  /\ Rest!Begin(c) /\ method'[c] = Call(r).method

-----------------------------------------------------------------------------
(* What the caller is told.                                                   *)

\* The error of a call: a status of the API, or none at all: a connection that
\* failed, a deadline, a caller that cancelled.
Errors == {"403", "404", "501", "other status", "no status"}

\* A status is reported in an error result, anything else as a Go error, which
\* the SDK reports as one.
WriteError(error) == IF error = "no status" THEN "go error" ELSE "error result"

\* Mutant of ListError: a list that failed is a list of nothing.
BugListErrorAny(error) == "success"

\* A folder without documents is not a failure.
ListError(error) == IF error = "404" THEN "success" ELSE WriteError(error)

\* The Go error of writeError is dropped, and what is left is a nil result.
ContactError(error) == IF error = "no status" THEN "success" ELSE WriteError(error)

\* Three statuses have a text of their own.
FreezeError(error) ==
  IF error \in {"403", "404", "501"} THEN "error result" ELSE WriteError(error)

ErrorResult(r, error) ==
  CASE r.tool = "document" /\ r.action = "list" -> ListError(error)
    [] r.tool = "contacts" -> ContactError(error)
    [] r.tool = "freeze" -> FreezeError(error)
    [] OTHER -> WriteError(error)

Tell(c, error, result) ==
  /\ tool[c].pc = "asked"
  /\ tool' = [tool EXCEPT ![c] =
       [pc |-> "done", request |-> @.request, body |-> @.body, error |-> error, result |-> result]]

Success(c) == Tell(c, "none", "success") /\ Rest!Succeed(c)

Failure(c) ==
  /\ \E error \in Errors : Tell(c, error, ErrorResult(tool[c].request, error))
  /\ Rest!Fail(c)

\* Dolibarr carries the request out: meanwhile, or after the call was given up.
Change(c) == Rest!Change(c) /\ UNCHANGED tool

Init ==
  /\ Rest!Init
  /\ tool = [c \in Callers |->
       [pc |-> "idle", request |-> NoRequest, body |-> NoBody, error |-> "none", result |-> "none"]]

Next == \E c \in Callers :
  \/ \E r \in Requests : Reject(c, r) \/ Ask(c, r)
  \/ Success(c)
  \/ Failure(c)
  \/ Change(c)

Spec == Init /\ [][Next]_vars

-----------------------------------------------------------------------------
(* Properties.                                                                *)

Sent(c) == phase[c] # "idle"

\* Every variable has its type, and the call and its REST call go together: what
\* was sent had been accepted, what was rejected was not sent.
TypeOK ==
  /\ DOMAIN tool = Callers
  /\ phase \in [Callers -> {"idle", "open", "ok", "error"}]
  /\ method \in [Callers -> Rest!Methods]
  /\ changes \in [Callers -> Nat]
  /\ \A c \in Callers :
       /\ changes[c] <= IF Sent(c) THEN Rest!Limit(method[c]) ELSE 0
       /\ HasData(tool[c].request)
       /\ (tool[c].pc = "idle") <=> (tool[c].request = NoRequest)
       /\ (tool[c].pc = "asked") <=> (phase[c] = "open")
       /\ (tool[c].result = "rejected") <=> (tool[c].pc = "done" /\ ~Sent(c))
       /\ Sent(c) =>
            /\ Accepted(tool[c].request)
            /\ tool[c].body \in Call(tool[c].request).bodies
            /\ method[c] = Call(tool[c].request).method

\* The entity whose document the request's data describes; a line has none.
Document(r) == IF r.tool = "line" THEN "line" ELSE r.entity

\* A document's own description is the one field whose name depends on where it
\* stands.
Expected(entity, k) ==
  IF entity = "projects" /\ DolibarrName(k) = "desc" THEN "description" ELSE DolibarrName(k)

\* Dolibarr reads a date as a timestamp.
Readable(n, v) == IF n \in DateFields /\ v \in {"day", "instant"} THEN "timestamp" ELSE v

\* body says what part says and nothing else, except for the keys in ours: each
\* field and option once, with the value of one of the names given for it.
Carries(entity, body, part, ours) ==
  LET given == DOMAIN part.fields \ (ours \cup (IF part.hasExtra THEN {"array_options"} ELSE {}))
      sent == DOMAIN body.fields \ ours
  IN /\ sent = {Expected(entity, k) : k \in given}
     /\ \A n \in sent : \E k \in given :
          Expected(entity, k) = n /\ body.fields[n] = Readable(n, part.fields[k])
     /\ DOMAIN body.options = {x.name : x \in DOMAIN part.extrafields}
     /\ \A n \in DOMAIN body.options : \E x \in DOMAIN part.extrafields :
          x.name = n /\ body.options[n] = part.extrafields[x]

Translated(r) == r.tool \in {"create", "update"} \/ (r.tool = "line" /\ r.action # "delete")

\* Nothing the caller gave is lost, renamed to what Dolibarr ignores, doubled, or
\* sent as a date it cannot read, in the document and in each of its lines. Two
\* names that stand for one field become one, with the value of either: which of
\* them is Go's iteration order, and is not claimed (fields.go:38-42, 107-142; the
\* number of a document that Dolibarr numbers is not the caller's to give).
NothingLost ==
  \A c \in Callers :
    LET r == tool[c].request IN
    Sent(c) /\ Translated(r) =>
      LET ours == IF r.tool = "create" /\ r.entity \in AutoNumbered THEN {"ref"} ELSE {}
          lines == tool[c].body.lines
      IN /\ Carries(Document(r), tool[c].body, r.data, ours)
         /\ Len(lines) = Len(r.data.lines)
         /\ \A i \in DOMAIN r.data.lines : Carries("line", lines[i], r.data.lines[i], {})

\* A document that Dolibarr numbers never carries a number of the caller's: its
\* ref is left out, or asks for the mask where leaving it out is refused
\* (validate.go:9-28, fields.go:200-217).
NumberedByDolibarr ==
  \A c \in Callers :
    LET r == tool[c].request
        sent == tool[c].body.fields
    IN Sent(c) /\ r.tool = "create" /\ r.entity \in AutoNumbered =>
         /\ ("ref" \in DOMAIN sent) <=> (r.entity \in {"projects", "tasks"})
         /\ "ref" \in DOMAIN sent => sent["ref"] = "auto"

\* What a document hangs from, by the name Dolibarr knows it by: the third party
\* of a proposal or order, the project of a task.
Anchors(entity) ==
  CASE entity \in {"proposals", "orders", "purchases"} -> {"socid"}
    [] entity = "tasks" -> {"fk_project"}
    [] OTHER -> {}

\* The caller gave the field n, or the option n, under one name only.
SoleName(data, n) ==
  \A j, k \in DOMAIN data.fields : DolibarrName(j) = n /\ DolibarrName(k) = n => j = k
SoleOption(data, n) ==
  \A x, y \in DOMAIN data.extrafields : x.name = n /\ y.name = n => x = y

\* No document is created hanging from nothing: the checks see the caller's names
\* and the body has Dolibarr's, and still the field arrives, and has a value unless
\* the caller gave it under both its names, when the empty one may be the one that
\* is sent. So do the conditions of a proposal (validate.go:34-41, 48-69). Of a
\* project's title and a task's label nothing is claimed: the checks take either
\* name for both entities, and the mapper renames neither.
CreatesAnchored ==
  \A c \in Callers :
    LET r == tool[c].request
        body == tool[c].body
    IN Sent(c) /\ r.tool = "create" =>
         /\ \A n \in Anchors(r.entity) :
              /\ n \in DOMAIN body.fields
              /\ SoleName(r.data, n) => HasValue(body.fields, {n})
         /\ r.entity = "proposals" =>
              /\ "tos_attached" \in DOMAIN body.options
              /\ SoleOption(r.data, "tos_attached") =>
                   body.options["tos_attached"] \in TOSAttachedValues

\* Nothing is created, added, attached, frozen or moved to another state twice by
\* one call of a tool, however its request is retried, lost or late
\* (client.go:82-84 with create.go:30, line.go:35, action.go:53, document.go:142,
\* proposal_versions.go:51).
OnceOnly ==
  \A c \in Callers :
    LET r == tool[c].request IN
    Sent(c) /\ (\/ r.tool \in {"create", "action", "freeze"}
                \/ r.tool = "line" /\ r.action = "add"
                \/ r.tool = "document" /\ r.action = "upload") => changes[c] <= 1

\* The caller learns of every failure of the call: a success is one of Dolibarr's,
\* or the list of a folder that has no files, never one of files that could not
\* be read (document.go:174-185). Of contacts, for every status of the API:
\* WriteFailuresReported has the rest.
FailuresReported ==
  \A c \in Callers :
    LET r == tool[c].request IN
    tool[c].result = "success" =>
      \/ phase[c] = "ok"
      \/ (r.tool = "document" /\ r.action = "list" /\ tool[c].error = "404")
      \/ (r.tool = "contacts" /\ tool[c].error = "no status")

\* output.go:54-55 "Non-API errors fall back to a wrapped Go error (which the SDK
\* still packs as a tool error)": a write that failed is never told as a success.
WriteFailuresReported ==
  \A c \in Callers :
    phase[c] = "error" /\ tool[c].result = "success" => method[c] = "GET"
=============================================================================
