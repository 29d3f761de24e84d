---------------------------- MODULE MCEntityRead -----------------------------
(* Small instances of EntityRead. Liveness is checked, so loads are not        *)
(* declared symmetric.                                                         *)
EXTENDS EntityRead

CONSTANTS l1, l2

Setup(conns, interruptible, first, second) ==
  [conns |-> conns, interruptible |-> interruptible,
   reads |-> [l \in Loads |-> IF l = l1 THEN first ELSE second]]

\* Every read alone, with a connection for each of its goroutines, interrupted
\* or not; and two proposals sharing one connection that nothing interrupts.
AllSetups ==
  {Setup(2, TRUE, DOMAIN Plans, {}), Setup(1, TRUE, {"proposal"}, {"party"}),
   Setup(1, FALSE, {"proposal"}, {"proposal"})}

\* An order, or a project, alone.
PartialSetups == {Setup(2, TRUE, {"order", "project"}, {})}
=============================================================================
