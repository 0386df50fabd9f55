------------------------------ MODULE Workforce -------------------------------
(***************************************************************************)
(* Contracts and exchange rates (hr-payroll-service, hr-routes).  An active *)
(* contract takes the place of the one before; rates are written one row   *)
(* after the other.  Every request is one READ COMMITTED transaction: rows *)
(* it has written are locked until it ends, an update that had to wait     *)
(* looks at its rows again, and a unique index waits for what is not       *)
(* committed.                                                              *)
(***************************************************************************)
EXTENDS Naturals, Sequences, FiniteSets

CONSTANTS
  People,       \* who can be hired
  Contracts,    \* contract numbers
  Writers,      \* requests that may be under way at the same time
  Currencies,   \* pairs with a rate
  Sources,      \* of rates
  Dates,        \* that rates are of, numbers
  MaxRefreshes,
  NoPerson

VARIABLES
  hired,
  contract,     \* contract[n]: whose it is and its status
  rate,         \* rate[c][<<source, date>>]: the refresh it is from, 0 without one
  refreshes,
  work,         \* work[w]: what request w does
  signing,      \* signing[w]: the contract it makes and for whom
  seen,         \* the active contracts its UPDATE has found
  ended,        \* those it has terminated
  writing,      \* the refresh it is, its source and date
  order,        \* the pairs it has still to write
  wrote         \* those it has written

rows == <<hired, contract, rate, refreshes>>
request == <<work, signing, seen, ended, writing, order, wrote>>
workVars == <<rows, request>>

NoContract == [person |-> NoPerson, status |-> "none"]
NoDraft == [number |-> CHOOSE n \in Contracts : TRUE, person |-> NoPerson]
NoRefresh == [id |-> 0, at |-> <<0, 0>>]

WorkforceInit ==
  /\ hired = {}
  /\ contract = [n \in Contracts |-> NoContract]
  /\ rate = [c \in Currencies |-> [at \in Sources \X Dates |-> 0]]
  /\ refreshes = 0
  /\ work = [w \in Writers |-> "idle"]
  /\ signing = [w \in Writers |-> NoDraft]
  /\ seen = [w \in Writers |-> {}] /\ ended = [w \in Writers |-> {}]
  /\ writing = [w \in Writers |-> NoRefresh]
  /\ order = [w \in Writers |-> <<>>] /\ wrote = [w \in Writers |-> {}]

ActiveOf(e) ==
  {n \in Contracts : contract[n] = [person |-> e, status |-> "active"]}

End(w) ==
  /\ work' = [work EXCEPT ![w] = "idle"]
  /\ signing' = [signing EXCEPT ![w] = NoDraft]
  /\ seen' = [seen EXCEPT ![w] = {}] /\ ended' = [ended EXCEPT ![w] = {}]
  /\ writing' = [writing EXCEPT ![w] = NoRefresh]
  /\ order' = [order EXCEPT ![w] = <<>>] /\ wrote' = [wrote EXCEPT ![w] = {}]

\* A key that is taken, a deadlock, a lost connection: nothing was done.
Rollback(w) == work[w] # "idle" /\ End(w) /\ UNCHANGED rows
-----------------------------------------------------------------------------
\* POST hr/employees, whose number must be new.
Hire(e) ==
  /\ e \notin hired
  /\ hired' = hired \cup {e}
  /\ UNCHANGED <<contract, rate, refreshes, request>>

\* POST hr/contracts: a draft is inserted only.
Begin(w, n, e, status) ==
  /\ work[w] = "idle" /\ e \in hired
  /\ signing' = [signing EXCEPT ![w] = [number |-> n, person |-> e]]
  /\ work' = [work EXCEPT ![w] = IF status = "active" THEN "begun" ELSE "draft"]
  /\ UNCHANGED <<rows, seen, ended, writing, order, wrote>>

\* UPDATE contracts finds the active ones that are committed when it begins,
LookForActive(w) ==
  /\ work[w] = "begun"
  /\ seen' = [seen EXCEPT ![w] = ActiveOf(signing[w].person)]
  /\ work' = [work EXCEPT ![w] = "looked"]
  /\ UNCHANGED <<rows, signing, ended, writing, order, wrote>>

\* waits for whoever is terminating them, and terminates those still active.
Terminate(w) ==
  /\ work[w] = "looked"
  /\ \A x \in Writers \ {w} : ended[x] \cap seen[w] = {}
  /\ ended' = [ended EXCEPT ![w] = seen[w] \cap ActiveOf(signing[w].person)]
  /\ work' = [work EXCEPT ![w] = "terminated"]
  /\ UNCHANGED <<rows, signing, seen, writing, order, wrote>>

\* Another request has inserted, and not committed, what w inserts now.
Contended(w) ==
  \E x \in Writers \ {w} :
    /\ work[x] \in {"inserted", "drafted"}
    /\ \/ signing[x].number = signing[w].number
       \/ signing[x].person = signing[w].person /\ work[x] = "inserted" /\ work[w] # "draft"

\* Mutant: no index of one active contract per employee.
SignAnyway(w) ==
  /\ work[w] \in {"terminated", "draft"}
  /\ contract[signing[w].number] = NoContract
  /\ \A x \in Writers \ {w} :
       work[x] \in {"inserted", "drafted"} => signing[x].number # signing[w].number
  /\ work' = [work EXCEPT ![w] = IF work[w] = "draft" THEN "drafted" ELSE "inserted"]
  /\ UNCHANGED <<rows, signing, seen, ended, writing, order, wrote>>

\* INSERT INTO contracts: the number is new, and a second active contract of
\* the employee is refused, which leaves Rollback.
Sign(w) ==
  /\ work[w] \in {"terminated", "draft"}
  /\ contract[signing[w].number] = NoContract
  /\ ~Contended(w)
  /\ work[w] = "terminated" => ActiveOf(signing[w].person) \subseteq ended[w]
  /\ work' = [work EXCEPT ![w] = IF work[w] = "draft" THEN "drafted" ELSE "inserted"]
  /\ UNCHANGED <<rows, signing, seen, ended, writing, order, wrote>>

CommitContract(w) ==
  /\ work[w] \in {"inserted", "drafted"}
  /\ contract' = [n \in Contracts |->
       IF n \in ended[w] THEN [contract[n] EXCEPT !.status = "terminated"]
       ELSE IF n = signing[w].number
         THEN [person |-> signing[w].person,
               status |-> IF work[w] = "drafted" THEN "draft" ELSE "active"]
       ELSE contract[n]]
  /\ End(w)
  /\ UNCHANGED <<hired, rate, refreshes>>
-----------------------------------------------------------------------------
\* POST hr/fx-rates/refresh, with the rates in any order.
Orders == {s \in [1..Cardinality(Currencies) -> Currencies] :
             \A i, j \in DOMAIN s : s[i] = s[j] => i = j}
BeginRefresh(w, at, s) ==
  /\ work[w] = "idle" /\ refreshes < MaxRefreshes
  /\ refreshes' = refreshes + 1
  /\ work' = [work EXCEPT ![w] = "refreshing"]
  /\ writing' = [writing EXCEPT ![w] = [id |-> refreshes + 1, at |-> at]]
  /\ order' = [order EXCEPT ![w] = s]
  /\ UNCHANGED <<hired, contract, rate, signing, seen, ended, wrote>>

\* INSERT ... ON CONFLICT DO UPDATE of the next rate, once nobody else holds
\* the row of this source and date.
Upsert(w) ==
  /\ work[w] = "refreshing" /\ order[w] # <<>>
  /\ \A x \in Writers \ {w} :
       writing[x].at = writing[w].at => Head(order[w]) \notin wrote[x]
  /\ wrote' = [wrote EXCEPT ![w] = @ \cup {Head(order[w])}]
  /\ order' = [order EXCEPT ![w] = Tail(@)]
  /\ UNCHANGED <<rows, work, signing, seen, ended, writing>>

CommitRefresh(w) ==
  /\ work[w] = "refreshing" /\ order[w] = <<>>
  /\ rate' = [c \in Currencies |->
       IF c \in wrote[w] THEN [rate[c] EXCEPT ![writing[w].at] = writing[w].id] ELSE rate[c]]
  /\ End(w)
  /\ UNCHANGED <<hired, contract, refreshes>>

\* GET hr/fx-rates and loadFxRates: the rates of the last date of the pair, of
\* whichever source; each reads all pairs in one statement.
LastDate(c) ==
  LET dates == {at[2] : at \in {at \in Sources \X Dates : rate[c][at] # 0}}
  IN  CHOOSE d \in dates : \A x \in dates : x <= d
Official(c) ==
  {rate[c][at] : at \in {at \in Sources \X Dates : at[2] = LastDate(c)}} \ {0}

WorkforceNext ==
  \/ \E e \in People : Hire(e)
  \/ \E w \in Writers :
       \/ \E n \in Contracts, e \in People, status \in {"draft", "active"} :
            Begin(w, n, e, status)
       \/ LookForActive(w) \/ Terminate(w) \/ Sign(w) \/ CommitContract(w)
       \/ \E at \in Sources \X Dates, s \in Orders : BeginRefresh(w, at, s)
       \/ Upsert(w) \/ CommitRefresh(w) \/ Rollback(w)
-----------------------------------------------------------------------------
WorkforceTypeOK ==
  /\ hired \subseteq People
  /\ \A n \in Contracts : contract[n] # NoContract => contract[n].person \in hired
  /\ refreshes \in 0..MaxRefreshes
  /\ \A w \in Writers : seen[w] \cup ended[w] \subseteq Contracts
  /\ \A w \in Writers : wrote[w] \subseteq Currencies

\* However requests overlap, an employee has at most one active contract, and
\* whose contracts were terminated for another has that one (hr-routes.ts:234):
\* payroll pays each of them once and leaves out nobody.
OneContract ==
  \A e \in People :
    /\ Cardinality(ActiveOf(e)) <= 1
    /\ (\E n \in Contracts : contract[n] = [person |-> e, status |-> "terminated"])
         => ActiveOf(e) # {}

\* Refreshes that overlap, in whichever orders (hr-routes.ts:330), leave the
\* rates of one of them on the last date, so that what payroll converts from
\* one currency to another and on agrees with itself; unless two sources have
\* rates of that date, when either is read (payroll-routes.ts:28).
RatesOfOneRefresh ==
  \A c, d \in Currencies :
    (\E at \in Sources \X Dates : rate[c][at] # 0) /\ Cardinality(Official(c)) = 1
      => Official(c) = Official(d)

WorkforceAgrees == OneContract /\ RatesOfOneRefresh
=============================================================================
