------------------------------ MODULE WriteCall ------------------------------
(* What internal/dolapi promises the rest of the server about one REST call,  *)
(* with the attempts abstracted away: a POST changes Dolibarr at most once;   *)
(* the invalidation hook runs in the step that makes a write succeed, once,   *)
(* and in no other. RestClient.tla implements it.                             *)
EXTENDS Naturals

CONSTANTS Callers, MostChanges

VARIABLES
  phase,    \* idle, open, ok or error
  method,   \* the method of the call
  changes,  \* how often Dolibarr carried the call out
  told      \* how often the cache was told to drop its entries

vars == <<phase, method, changes, told>>

Methods == {"GET", "POST", "PUT", "DELETE"}

Limit(m) == CASE m = "GET"             -> 0
              [] m \in {"POST", "DELETE"} -> 1
              [] m = "PUT"             -> MostChanges

Init ==
  /\ phase = [c \in Callers |-> "idle"]
  /\ method = [c \in Callers |-> "GET"]
  /\ changes = [c \in Callers |-> 0]
  /\ told = [c \in Callers |-> 0]

Begin(c) ==
  /\ phase[c] = "idle"
  /\ phase' = [phase EXCEPT ![c] = "open"]
  /\ \E m \in Methods : method' = [method EXCEPT ![c] = m]
  /\ UNCHANGED <<changes, told>>

\* A request already on its way may be carried out after its call has ended.
Change(c) ==
  /\ phase[c] # "idle"
  /\ changes[c] < Limit(method[c])
  /\ changes' = [changes EXCEPT ![c] = @ + 1]
  /\ UNCHANGED <<phase, method, told>>

Succeed(c) ==
  /\ phase[c] = "open"
  /\ phase' = [phase EXCEPT ![c] = "ok"]
  /\ told' = IF method[c] = "GET" THEN told ELSE [told EXCEPT ![c] = @ + 1]
  /\ UNCHANGED <<method, changes>>

Fail(c) ==
  /\ phase[c] = "open"
  /\ phase' = [phase EXCEPT ![c] = "error"]
  /\ UNCHANGED <<method, changes, told>>

Next == \E c \in Callers : Begin(c) \/ Change(c) \/ Succeed(c) \/ Fail(c)

Spec == Init /\ [][Next]_vars
=============================================================================
