-------------------------- MODULE FieldMapperProofs ---------------------------
(* What a translation does to any data: which names it sends, and from which   *)
(* of the caller's names each value is.                                        *)
EXTENDS FieldMapper, TLAPS

\* Each name that is sent is that of a given one, and has its value; every given
\* name is sent under one.
LEMMA RenamedFields ==
  ASSUME NEW fields, NEW f \in Renamed(fields)
  PROVE  /\ DOMAIN f = {DolibarrName(k) : k \in DOMAIN fields}
         /\ \A n \in DOMAIN f : \E k \in DOMAIN fields :
              DolibarrName(k) = n /\ f[n] = Converted(k, fields[k])
  <1> DEFINE names == {DolibarrName(k) : k \in DOMAIN fields}
  <1>1. PICK from \in Sources(names, DOMAIN fields, DolibarrName) :
          f = [n \in DOMAIN from |-> Converted(from[n], fields[from[n]])]
    BY DEF Renamed
  <1>2. from \in [names -> DOMAIN fields] /\ \A n \in names : DolibarrName(from[n]) = n
    BY <1>1 DEF Sources
  <1> QED BY <1>1, <1>2

\* The options are the extrafields, under their names.
SaysOptions(extrafields, options) ==
  /\ DOMAIN options = {x.name : x \in DOMAIN extrafields}
  /\ \A n \in DOMAIN options : \E x \in DOMAIN extrafields :
       x.name = n /\ options[n] = extrafields[x]

LEMMA OptionFields ==
  ASSUME NEW extrafields, NEW o \in Options(extrafields)
  PROVE  SaysOptions(extrafields, o)
  <1> DEFINE names == {x.name : x \in DOMAIN extrafields}
  <1>1. PICK from \in Sources(names, DOMAIN extrafields, OptionName) :
          o = [n \in DOMAIN from |-> extrafields[from[n]]]
    BY DEF Options
  <1>2. from \in [names -> DOMAIN extrafields] /\ \A n \in names : OptionName(from[n]) = n
    BY <1>1 DEF Sources
  <1>3. \A n \in names : from[n].name = n
    BY <1>2 DEF OptionName
  <1> QED BY <1>1, <1>2, <1>3 DEF SaysOptions

\* No name is turned into these, and a description never into itself.
LEMMA OwnNames ==
  ASSUME NEW k
  PROVE  /\ DolibarrName(k) = "ref" <=> k = "ref"
         /\ DolibarrName(k) # "description"
         /\ DolibarrName(k) = "array_options" <=> k = "array_options"
         /\ DolibarrName(k) = "title" <=> k = "title"
         /\ DolibarrName(k) = "label" <=> k = "label"
  BY DEF DolibarrName, Aliases

LEMMA PartyNames ==
  ASSUME NEW k
  PROVE  /\ k \in {"customer_id", "supplier_id", "socid"} => DolibarrName(k) = "socid"
         /\ k \in {"project_id", "fk_project"} => DolibarrName(k) = "fk_project"
  BY DEF DolibarrName, Aliases

-----------------------------------------------------------------------------
(* A part, a document, and a document of an entity.                           *)

\* The caller's own array_options gives way to the extrafields.
Given(part) == DOMAIN part.fields \ (IF part.hasExtra THEN {"array_options"} ELSE {})

\* The name under which a field is sent; the fields of a line are those of no
\* document.
SentName(entity, k) ==
  IF entity \in NativeDescriptionEntities /\ DolibarrName(k) = "desc" THEN "description"
  ELSE DolibarrName(k)

LEMMA LineName == \A k : SentName("line", k) = DolibarrName(k)
  BY DEF SentName, NativeDescriptionEntities

\* What part says is what b says, under the names Dolibarr knows.
Sends(entity, part, b) ==
  /\ DOMAIN b.fields = {SentName(entity, k) : k \in Given(part)}
  /\ \A n \in DOMAIN b.fields : \E k \in Given(part) :
       SentName(entity, k) = n /\ b.fields[n] = Converted(k, part.fields[k])
  /\ SaysOptions(part.extrafields, b.options)

LEMMA MappedPart ==
  ASSUME NEW part, part.hasExtra \in BOOLEAN, NEW b \in MapPart(part)
  PROVE  Sends("line", part, b)
  <1> DEFINE dropped == IF part.hasExtra THEN {"array_options"} ELSE {}
  <1>1. PICK f \in Renamed(part.fields), o \in Options(part.extrafields) :
          b = [fields |-> [n \in DOMAIN f \ dropped |-> f[n]], options |-> o]
    BY DEF MapPart
  <1>2. /\ DOMAIN b.fields = DOMAIN f \ dropped
        /\ \A n \in DOMAIN b.fields : b.fields[n] = f[n]
        /\ b.options = o
    BY <1>1
  <1>3. /\ DOMAIN f = {DolibarrName(k) : k \in DOMAIN part.fields}
        /\ \A n \in DOMAIN f : \E k \in DOMAIN part.fields :
             DolibarrName(k) = n /\ f[n] = Converted(k, part.fields[k])
    BY <1>1, RenamedFields
  <1>4. \A k : DolibarrName(k) \in dropped <=> k \in dropped
    BY OwnNames
  <1>5. Given(part) = DOMAIN part.fields \ dropped
    BY DEF Given
  <1> HIDE DEF dropped
  <1>6. DOMAIN b.fields = {DolibarrName(k) : k \in Given(part)}
    BY <1>2, <1>3, <1>4, <1>5
  <1>7. ASSUME NEW n \in DOMAIN b.fields
        PROVE  \E k \in Given(part) :
                 DolibarrName(k) = n /\ b.fields[n] = Converted(k, part.fields[k])
    BY <1>2, <1>3, <1>4, <1>5, <1>7
  <1>8. SaysOptions(part.extrafields, o)
    BY <1>1, OptionFields
  <1> QED BY <1>2, <1>6, <1>7, <1>8, LineName DEF Sends

\* No line is lost, and each is sent in its place.
SaysLines(data, lines) ==
  /\ Len(lines) = Len(data.lines) /\ DOMAIN lines = 1 .. Len(data.lines)
  /\ \A i \in DOMAIN data.lines :
       Sends("line", data.lines[i], lines[i])

LEMMA MappedData ==
  ASSUME NEW data, IsData(data), NEW b \in MapToDolibarr(data)
  PROVE  /\ b = [fields |-> b.fields, options |-> b.options, lines |-> b.lines]
         /\ Sends("line", data, b)
         /\ SaysLines(data, b.lines)
  <1>1. PICK p \in MapPart(data),
             ls \in {s \in [1 .. Len(data.lines) ->
                            UNION {MapPart(data.lines[i]) : i \in 1 .. Len(data.lines)}] :
                       \A i \in DOMAIN s : s[i] \in MapPart(data.lines[i])} :
          b = [fields |-> p.fields, options |-> p.options, lines |-> ls]
    BY DEF MapToDolibarr
  <1>2. /\ b.fields = p.fields /\ b.options = p.options /\ b.lines = ls
        /\ b = [fields |-> b.fields, options |-> b.options, lines |-> b.lines]
    BY <1>1
  <1>3. Sends("line", data, b)
    BY <1>1, <1>2, MappedPart DEF IsData, Sends
  <1>4. Len(ls) = Len(data.lines) /\ DOMAIN ls = 1 .. Len(data.lines)
    BY <1>1 DEF IsData
  <1>5. ASSUME NEW i \in DOMAIN data.lines
        PROVE  Sends("line", data.lines[i], ls[i])
    <2>1. ls[i] \in MapPart(data.lines[i]) /\ data.lines[i].hasExtra \in BOOLEAN
      BY <1>1, <1>4, <1>5 DEF IsData
    <2> QED BY <2>1, MappedPart
  <1> QED BY <1>2, <1>3, <1>4, <1>5 DEF SaysLines

LEMMA MappedEntity ==
  ASSUME NEW entity, NEW data, IsData(data), NEW b \in MapEntityToDolibarr(entity, data)
  PROVE  /\ Sends(entity, data, b)
         /\ SaysLines(data, b.lines)
  <1>1. PICK out \in MapToDolibarr(data) :
          b = IF entity \in NativeDescriptionEntities /\ "desc" \in DOMAIN out.fields
              THEN [out EXCEPT !.fields =
                      [n \in (DOMAIN out.fields \ {"desc"}) \cup {"description"} |->
                         IF n = "description" THEN out.fields["desc"] ELSE out.fields[n]]]
              ELSE out
    BY DEF MapEntityToDolibarr
  <1>2. /\ out = [fields |-> out.fields, options |-> out.options, lines |-> out.lines]
        /\ Sends("line", data, out)
        /\ SaysLines(data, out.lines)
    BY MappedData
  <1>3. CASE ~(entity \in NativeDescriptionEntities /\ "desc" \in DOMAIN out.fields)
    <2>1. b = out
      BY <1>1, <1>3
    <2>2. \A k \in Given(data) : SentName(entity, k) = DolibarrName(k)
      BY <1>2, <1>3, LineName DEF Sends, SentName
    <2> QED BY <1>2, <2>1, <2>2, LineName DEF Sends
  <1>4. CASE entity \in NativeDescriptionEntities /\ "desc" \in DOMAIN out.fields
    <2>1. /\ b.options = out.options /\ b.lines = out.lines
          /\ DOMAIN b.fields = (DOMAIN out.fields \ {"desc"}) \cup {"description"}
          /\ b.fields["description"] = out.fields["desc"]
          /\ \A n \in DOMAIN b.fields \ {"description"} : b.fields[n] = out.fields[n]
      BY <1>1, <1>2, <1>4
    <2>2. \A k : SentName(entity, k) =
            IF DolibarrName(k) = "desc" THEN "description" ELSE DolibarrName(k)
      BY <1>4 DEF SentName
    <2>3. DOMAIN b.fields = {SentName(entity, k) : k \in Given(data)}
      BY <1>2, <1>4, <2>1, <2>2, LineName DEF Sends
    <2>4. ASSUME NEW n \in DOMAIN b.fields
          PROVE  \E k \in Given(data) :
                   SentName(entity, k) = n /\ b.fields[n] = Converted(k, data.fields[k])
      <3>1. CASE n = "description"
        BY <1>2, <1>4, <2>1, <2>2, <3>1, LineName DEF Sends
      <3>2. CASE n # "description"
        BY <1>2, <2>1, <2>2, <2>4, <3>2, LineName DEF Sends
      <3> QED BY <3>1, <3>2
    <2> QED BY <1>2, <2>1, <2>3, <2>4 DEF Sends
  <1> QED BY <1>3, <1>4
=============================================================================
