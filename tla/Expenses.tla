------------------------------ MODULE Expenses -------------------------------
(***************************************************************************)
(* Expenses (grant-service, coa-expenses): an expense is written down,     *)
(* submitted and approved, and the approval writes a journal entry that    *)
(* debits the account.  The number of the entry is made of the first eight *)
(* characters of the id of the expense.  A request is one READ COMMITTED   *)
(* transaction that holds the row it has updated until it ends.            *)
(***************************************************************************)
EXTENDS Integers, FiniteSets

CONSTANTS Expenses, Accounts, Officers,  \* ids of expenses, accounts and users
          Numbers,                       \* numbers of journal entries
          NoOfficer                      \* "no user", "no expense" and the like

VARIABLES
  expense,      \* expense[x]: its status, "none" before it is written down
  account,      \* account[x]: account_id
  number,       \* number[x]: the entry number that the id of x gives
  submitted_by, \* submitted_by[x]
  approved_by,  \* approved_by[x]
  entries,      \* journal_entries: pairs of an expense and a number
  debit,        \* debit[a]: what journal_lines debit from the account a
  approving,    \* approving[o]: the expense that the request of o has updated
  entered       \* requests that have inserted the journal entry, uncommitted

expenses == <<expense, account, number, submitted_by, approved_by, entries, debit>>

ExpensesInit ==
  /\ expense = [x \in Expenses |-> "none"]
  /\ account = [x \in Expenses |-> NoOfficer]
  /\ number = [x \in Expenses |-> NoOfficer]
  /\ submitted_by = [x \in Expenses |-> NoOfficer]
  /\ approved_by = [x \in Expenses |-> NoOfficer]
  /\ entries = {} /\ entered = {}
  /\ debit = [a \in Accounts |-> 0]
  /\ approving = [o \in Officers |-> NoOfficer]

-----------------------------------------------------------------------------
\* POST grant/expenses
CreateExpense(x, a, n) ==
  /\ expense[x] = "none"
  /\ expense' = [expense EXCEPT ![x] = "draft"]
  /\ account' = [account EXCEPT ![x] = a]
  /\ number' = [number EXCEPT ![x] = n]
  /\ UNCHANGED <<submitted_by, approved_by, entries, debit, approving, entered>>

\* POST grant/expenses/:id/submit
Submit(o, x) ==
  /\ expense[x] = "draft"
  /\ expense' = [expense EXCEPT ![x] = "submitted"]
  /\ submitted_by' = [submitted_by EXCEPT ![x] = o]
  /\ UNCHANGED <<account, number, approved_by, entries, debit, approving, entered>>

Held(x) == \E o \in Officers : approving[o] = x

\* POST grant/expenses/:id/approve: UPDATE ... WHERE status = 'submitted'; a
\* CHECK refuses the one who submitted it.
ApproveExpense(o, x) ==
  /\ approving[o] = NoOfficer /\ expense[x] = "submitted" /\ ~ Held(x)
  /\ submitted_by[x] # o
  /\ approving' = [approving EXCEPT ![o] = x]
  /\ UNCHANGED <<expenses, entered>>

\* INSERT the entry: the unique index waits for an entry of the same number
\* that is not committed, and refuses one that is.
Enter(o) ==
  LET x == approving[o]
  IN /\ x # NoOfficer /\ o \notin entered
     /\ number[x] \notin {e[2] : e \in entries}
     /\ \A p \in entered : number[approving[p]] # number[x]
     /\ entered' = entered \cup {o}
     /\ UNCHANGED <<expenses, approving>>

End(o) ==
  /\ approving' = [approving EXCEPT ![o] = NoOfficer]
  /\ entered' = entered \ {o}

CommitExpense(o) ==
  LET x == approving[o]
  IN /\ o \in entered
     /\ expense' = [expense EXCEPT ![x] = "approved"]
     /\ approved_by' = [approved_by EXCEPT ![x] = o]
     /\ entries' = entries \cup {<<x, number[x]>>}
     /\ debit' = [debit EXCEPT ![account[x]] = @ + 1]
     /\ End(o)
     /\ UNCHANGED <<account, number, submitted_by>>

\* An error, a number that is taken, a lost connection: ROLLBACK.
RollbackExpense(o) ==
  approving[o] # NoOfficer /\ End(o) /\ UNCHANGED expenses

ExpensesNext ==
  \/ \E x \in Expenses, a \in Accounts, n \in Numbers : CreateExpense(x, a, n)
  \/ \E o \in Officers :
       \/ \E x \in Expenses : Submit(o, x) \/ ApproveExpense(o, x)
       \/ Enter(o) \/ CommitExpense(o) \/ RollbackExpense(o)

-----------------------------------------------------------------------------
\* Type invariant.
ExpensesTypeOK ==
  /\ expense \in [Expenses -> {"none", "draft", "submitted", "approved"}]
  /\ account \in [Expenses -> Accounts \cup {NoOfficer}]
  /\ number \in [Expenses -> Numbers \cup {NoOfficer}]
  /\ submitted_by \in [Expenses -> Officers \cup {NoOfficer}]
  /\ approved_by \in [Expenses -> Officers \cup {NoOfficer}]
  /\ entries \subseteq Expenses \X Numbers
  /\ debit \in [Accounts -> Nat]
  /\ approving \in [Officers -> Expenses \cup {NoOfficer}]
  /\ entered \subseteq Officers

(* What the journal debits from an account is what was approved for it:    *)
(* one entry for each approved expense, by somebody else than the one who  *)
(* submitted it, and no two entries with the same number.                  *)
JournalAgrees ==
  LET approved == {x \in Expenses : expense[x] = "approved"}
  IN /\ {e[1] : e \in entries} = approved
     /\ Cardinality({e[2] : e \in entries}) = Cardinality(entries)
     /\ \A x \in approved : approved_by[x] # submitted_by[x]
     /\ \A a \in Accounts :
          debit[a] = Cardinality({x \in approved : account[x] = a})
=============================================================================
