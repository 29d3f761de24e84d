---------------------------- MODULE MCWriteTools -----------------------------
(* Small instances of WriteTools: every tool, with the inputs that its checks *)
(* and the mapper tell apart.                                                 *)
EXTENDS WriteTools, TLC

Part(fields, extrafields) ==
  [fields |-> fields, extrafields |-> extrafields, hasExtra |-> extrafields # <<>>]

Data(fields, extrafields, lines) ==
  [fields |-> fields, extrafields |-> extrafields, hasExtra |-> extrafields # <<>>,
   lines |-> lines]

NoExtra == <<>>
Base == [tool |-> "", action |-> "", entity |-> "", id |-> 0, line_id |-> 0,
         data |-> Data(<<>>, NoExtra, <<>>), hasData |-> FALSE, status |-> 0,
         warehouse_id |-> 0, note |-> "", ref |-> "", filename |-> "", content |-> "",
         subdir |-> "", overwrite |-> FALSE]

\* Every function from at most n of the keys to the values.
Maps(keys, values, n) ==
  UNION {[ks -> values] : ks \in {s \in SUBSET keys : Cardinality(s) <= n}}

\* Names that are required, collide, are dates, or belong to Dolibarr.
HeaderKeys == {"customer_id", "supplier_id", "socid", "title", "label", "project_id",
               "fk_project", "ref"}
TextKeys == {"description", "desc", "date", "validity_end", "delivery_date",
             "array_options"}

TOS == [name |-> "tos_attached", prefixed |-> FALSE]
PrefixedTOS == [name |-> "tos_attached", prefixed |-> TRUE]

Extras == {NoExtra, TOS :> "NoCgv", TOS :> "other", TOS :> "number",
           PrefixedTOS :> "NoCgv", TOS :> "NoCgv" @@ PrefixedTOS :> "other"}

Lines == {<<>>, <<Part([description |-> "other"], NoExtra)>>,
          <<Part([unit_price |-> "number", subprice |-> "0"], NoExtra),
            Part([description |-> "other", date |-> "day"], TOS :> "other")>>}

\* Which checks and translations an entity goes through.
SomeEntities == {"customers", "proposals", "orders", "purchases", "projects", "tasks", "invoices"}

Creates ==
  {[Base EXCEPT !.tool = "create", !.entity = e, !.data = d, !.hasData = TRUE] :
     e \in SomeEntities,
     d \in {Data(f, x, <<>>) : f \in Maps(HeaderKeys, {"0", "other"}, 2), x \in Extras}
       \cup {Data(f @@ [customer_id |-> "other", title |-> "other"], TOS :> "NoCgv", ls) :
               f \in Maps(TextKeys, {"day", "null"}, 1), ls \in Lines}}

Updates ==
  {[Base EXCEPT !.tool = "update", !.entity = e, !.id = 1, !.data = Data(f, x, ls),
                !.hasData = TRUE] :
     e \in {"proposals", "projects", "invoices"}, f \in Maps(TextKeys, {"day", "other"}, 2),
     x \in {NoExtra, TOS :> "other"}, ls \in Lines}

LineCalls ==
  {[Base EXCEPT !.tool = "line", !.action = a, !.entity = "orders", !.id = 1, !.line_id = l,
                !.data = Data(f, NoExtra, <<>>), !.hasData = h] :
     a \in {"add", "update", "delete", ""}, l \in 0 .. 1,
     f \in {[description |-> "other"], [due_date |-> "day"]}, h \in BOOLEAN}

Others ==
  {[Base EXCEPT !.tool = "delete", !.entity = e, !.id = 1] : e \in {"tasks", "invoices"}}
  \cup
  {[Base EXCEPT !.tool = "action", !.entity = e, !.action = a, !.id = 1, !.status = s,
                !.warehouse_id = w, !.note = n] :
     e \in {"proposals", "shipments", "tasks"}, a \in {"close", "validate", "approve"},
     s \in {0, 2}, w \in 0 .. 1, n \in {"", "why"}}
  \cup
  {[Base EXCEPT !.tool = "document", !.entity = e, !.action = a, !.id = i, !.ref = f,
                !.filename = n, !.content = t, !.subdir = d] :
     e \in {"projects", "warehouses"}, a \in {"upload", "list", ""}, i \in 0 .. 1,
     f \in {"", "PJ1"}, n \in {"", "a.pdf"}, t \in {"base64", "raw"}, d \in {"", "internal"}}
  \cup
  {[Base EXCEPT !.tool = "contacts", !.action = a, !.id = i, !.data = Data(f, NoExtra, <<>>),
                !.hasData = TRUE] :
     a \in {"update", ""}, i \in 0 .. 1, f \in {<<>>, [email |-> "other"]}}
  \cup
  {[Base EXCEPT !.tool = "freeze", !.id = i, !.note = n] : i \in 0 .. 1, n \in {"", "why"}}

SmallRequests == Creates \cup Updates \cup LineCalls \cup Others
ContactRequests == {r \in Others : r.tool = "contacts"}
=============================================================================
