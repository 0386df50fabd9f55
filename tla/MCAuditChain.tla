---------------------------- MODULE MCAuditChain ----------------------------
(* Two tenants, of which one is busy; two contents, stored as they are     *)
(* passed, or (for the counterexample) one of them in another spelling.    *)
EXTENDS AuditChain

CONSTANTS lower, upper

SameSpelling == [b \in Bodies |-> b]

\* A uuid column gives a value back in lower case.
LowerCased == [b \in Bodies |-> lower]
=============================================================================
