----------------------------- MODULE MCPepBudget -----------------------------
(* Small instances of PepBudget: element lists that are right, rejected by    *)
(* the tool or refused by the endpoint.                                       *)
EXTENDS PepBudget, TLC

Element == [columns |-> {"code", "label", "level"}, code |-> "1", label |-> "works",
            level |-> 1, parent |-> ""]
Child == [Element EXCEPT !.columns = @ \cup {"parent_code", "cost_unit"},
                         !.code = "1.1", !.level = 2, !.parent = "1"]

Elements == <<Element, Child>>
Orphan == <<Child>>                                               \* refused by the endpoint
Misspelt == <<[Element EXCEPT !.columns = @ \cup {"cost_units"}]>> \* rejected by the tool

Input(mode, elements, replace, confirm) ==
  [mode |-> mode, elements |-> elements, replace |-> replace, confirm_replace |-> confirm]

\* Every load, and the rehearsals and wrong inputs that differ in what they cause.
SmallInputs ==
  {Input("apply", Elements, r, c) : r \in BOOLEAN, c \in BOOLEAN} \cup
  {Input("", Elements, FALSE, TRUE), Input("preview", Orphan, TRUE, FALSE),
   Input("apply", Misspelt, TRUE, FALSE), Input("load", Elements, TRUE, TRUE)}

MCSymmetry == Permutations(Agents)
=============================================================================
