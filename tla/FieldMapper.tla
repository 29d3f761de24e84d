----------------------------- MODULE FieldMapper ------------------------------
(* internal/mapper and the checks of tools/validate.go: how the data of a     *)
(* write tool becomes the body of a REST call. A Go map is a function; where  *)
(* two of its keys are renamed to one, the order in which Go happens to       *)
(* iterate decides which of them is sent, so a translation is a set of bodies.*)
EXTENDS Integers, Sequences, FiniteSets

\* A part is a document or a line: its fields, its extrafields (keyed by their
\* name and by whether the caller wrote the "options_" prefix), and whether it has
\* any; a document has its lines besides. A value is JSON "null", "" or "0", a
\* "number", a date ("day", "instant" or "timestamp"), or a string.

\* The data of a request: the fields of a document and a list of parts.
IsData(data) ==
  /\ DOMAIN data = {"fields", "extrafields", "hasExtra", "lines"}
  /\ data.hasExtra \in BOOLEAN
  /\ Len(data.lines) \in Nat /\ DOMAIN data.lines = 1 .. Len(data.lines)
  /\ \A i \in DOMAIN data.lines : data.lines[i].hasExtra \in BOOLEAN

\* The names that MapToDolibarr changes; every other one is kept.
Aliases ==
  [customer_id |-> "socid", supplier_id |-> "socid", product_id |-> "fk_product",
   project_id |-> "fk_project", warehouse_id |-> "fk_warehouse", vat_rate |-> "tva_tx",
   unit_price |-> "subprice", discount_percent |-> "remise_percent", unit_id |-> "fk_unit",
   payment_term_id |-> "cond_reglement_id", payment_mode_id |-> "mode_reglement_id",
   source_id |-> "demand_reason_id", shipping_method_id |-> "fk_shipping_method",
   incoterms_id |-> "fk_incoterms", incoterms_location |-> "location_incoterms",
   description |-> "desc", customer_ref |-> "ref_client", client_ref |-> "ref_client",
   proposalkit_ref |-> "ref_ext", due_date |-> "date_lim_reglement",
   validity_end |-> "fin_validite", budget |-> "budget_amount", is_public |-> "public",
   opportunity_amount |-> "opp_amount", opportunity_percent |-> "opp_percent",
   opportunity_status_id |-> "fk_opp_status", planned_hours |-> "planned_workload"]

DateFields == {"date", "date_livraison", "delivery_date", "fin_validite",
               "date_lim_reglement", "date_commande", "date_start", "date_end"}

DolibarrName(k) == IF k \in DOMAIN Aliases THEN Aliases[k] ELSE k

ToTimestamp(v) == IF v \in {"day", "instant"} THEN "timestamp" ELSE v

\* Mutant of Converted: dates are recognised before the field is renamed.
BugConvertedEarly(k, v) == IF k \in DateFields THEN ToTimestamp(v) ELSE v

\* Dates are recognised by the name Dolibarr uses.
Converted(k, v) == IF DolibarrName(k) \in DateFields THEN ToTimestamp(v) ELSE v

\* Which of the given keys each name is taken from, for every iteration order.
Sources(names, given, Name(_)) ==
  {from \in [names -> given] : \A n \in names : Name(from[n]) = n}

Renamed(fields) ==
  LET given == DOMAIN fields IN
  {[n \in DOMAIN from |-> Converted(from[n], fields[from[n]])] :
     from \in Sources({DolibarrName(k) : k \in given}, given, DolibarrName)}

OptionName(x) == x.name

\* The keys of array_options without their common prefix.
Options(extrafields) ==
  LET given == DOMAIN extrafields IN
  {[n \in DOMAIN from |-> extrafields[from[n]]] :
     from \in Sources({x.name : x \in given}, given, OptionName)}

\* A caller's own array_options gives way to the extrafields.
MapPart(part) ==
  {[fields  |-> [n \in DOMAIN f \ (IF part.hasExtra THEN {"array_options"} ELSE {}) |-> f[n]],
    options |-> o] :
     f \in Renamed(part.fields), o \in Options(part.extrafields)}

MapToDolibarr(data) ==
  {[fields |-> p.fields, options |-> p.options, lines |-> ls] :
     p \in MapPart(data),
     ls \in {s \in [1 .. Len(data.lines) -> UNION {MapPart(data.lines[i]) : i \in 1 .. Len(data.lines)}] :
               \A i \in DOMAIN s : s[i] \in MapPart(data.lines[i])}}

NativeDescriptionEntities == {"projects"}

\* Mutant of MapEntityToDolibarr: the entity is not looked at.
BugMapEntityPlain(entity, data) == MapToDolibarr(data)

\* A project keeps its description under that name; the lines of any document
\* do not.
MapEntityToDolibarr(entity, data) ==
  LET Native(f) ==
        [n \in (DOMAIN f \ {"desc"}) \cup {"description"} |->
           IF n = "description" THEN f["desc"] ELSE f[n]]
  IN {IF entity \in NativeDescriptionEntities /\ "desc" \in DOMAIN out.fields
      THEN [out EXCEPT !.fields = Native(@)] ELSE out : out \in MapToDolibarr(data)}

-----------------------------------------------------------------------------
(* Entities and their actions.                                                *)

ValidEntities == {"customers", "products", "proposals", "projects", "tasks", "orders",
                  "purchases", "warehouses", "shipments", "receptions"}

ValidActions ==
  [proposals  |-> {"validate", "close", "settodraft", "setinvoiced"},
   orders     |-> {"validate", "close"},
   projects   |-> {"validate"},
   purchases  |-> {"validate", "approve", "makeorder", "receive"},
   shipments  |-> {"validate", "close"},
   receptions |-> {"validate", "close"}]

AutoNumbered == {"proposals", "orders", "purchases", "projects", "tasks", "shipments", "receptions"}
ExplicitAutoRef == {"projects", "tasks"}
TOSAttachedValues == {"NoCgv"}

-----------------------------------------------------------------------------
(* The checks of a create.                                                    *)

\* Mutant of StripAutoNumberRef: a ref is only filled in where there is none.
BugStripKeepsRef(entity, fields) ==
  IF entity \notin ExplicitAutoRef THEN fields
  ELSE [k \in DOMAIN fields \cup {"ref"} |->
          IF k \in DOMAIN fields THEN fields[k] ELSE "auto"]

\* The document's number is Dolibarr's to give: some entities ask for it with the
\* word "auto", the others by leaving it out.
StripAutoNumberRef(entity, fields) ==
  CASE entity \notin AutoNumbered -> fields
    [] entity \in ExplicitAutoRef ->
         [k \in DOMAIN fields \cup {"ref"} |-> IF k = "ref" THEN "auto" ELSE fields[k]]
    [] OTHER -> [k \in DOMAIN fields \ {"ref"} |-> fields[k]]

HasValue(fields, keys) ==
  \E k \in keys \cap DOMAIN fields : fields[k] \notin {"null", "", "0"}

TOSName == [name |-> "tos_attached", prefixed |-> FALSE]

\* An extrafield counts as present when it is a string.
TOSPresent(data) ==
  TOSName \in DOMAIN data.extrafields
    /\ data.extrafields[TOSName] \notin {"null", "0", "number"}

ValidTOS(entity, data) ==
  entity \in {"proposals", "orders"} =>
    /\ entity = "proposals" => TOSPresent(data)
    /\ TOSPresent(data) => data.extrafields[TOSName] \in TOSAttachedValues

\* Mutant of ValidateCreate: any one of the required fields will do.
BugValidateCreateAny(entity, data) ==
  /\ entity = "tasks" =>
       HasValue(data.fields, {"label", "title", "project_id", "fk_project"})
  /\ ValidTOS(entity, data)

ValidateCreate(entity, data) ==
  /\ entity \in {"proposals", "orders"} => HasValue(data.fields, {"customer_id", "socid"})
  /\ entity = "purchases" => HasValue(data.fields, {"supplier_id", "socid"})
  /\ entity = "projects" => HasValue(data.fields, {"title", "label"})
  /\ entity = "tasks" =>
       /\ HasValue(data.fields, {"label", "title"})
       /\ HasValue(data.fields, {"project_id", "fk_project"})
  /\ ValidTOS(entity, data)
=============================================================================
