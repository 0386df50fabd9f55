----------------------------- MODULE DataTable ------------------------------
(***************************************************************************)
(* The table every list of the browser is shown in (DataTable.vue, its     *)
(* pages in Pagination.vue): the rows it is given are filtered, sorted and *)
(* cut into pages, and ticked by key, or by place where the rows have no   *)
(* key.  The view may give it other rows at any time.                      *)
(***************************************************************************)
EXTENDS Integers, FiniteSets

CONSTANTS
  Ids,          \* the rows there can be, numbers
  Value,        \* what each has in the column that sorts; 0 is none
  Sizes         \* rows to a page

VARIABLES
  rows,         \* given by the view, in the order of the numbers
  filter,       \* 0, or the value that is looked for
  sortDir,      \* "none" as long as no column was chosen
  page,
  pageSize,     \* pageSizeLocal
  keyed,        \* rowKey is given
  ticks,        \* selected: keys, or places
  meant,        \* the rows that were ticked
  stranded,     \* the pages became fewer since one was chosen
  moved         \* what is at a place changed since something was ticked

tableVars ==
  <<rows, filter, sortDir, page, pageSize, keyed, ticks, meant, stranded, moved>>

DataTableInit ==
  /\ rows = {} /\ filter = 0 /\ sortDir = "none"
  /\ page = 1 /\ pageSize = CHOOSE n \in Sizes : TRUE
  /\ keyed \in BOOLEAN
  /\ ticks = {} /\ meant = {}
  /\ stranded = FALSE /\ moved = FALSE
-----------------------------------------------------------------------------
Filtered(s, q) == {r \in s : q = 0 \/ Value[r] = q}

\* The sort is stable; rows without a value come first, or last.
Before(a, b, dir) ==
  \/ dir = "asc" /\ Value[a] < Value[b]
  \/ dir = "desc" /\ Value[a] > Value[b]
  \/ (dir = "none" \/ Value[a] = Value[b]) /\ a < b
Place(r, s, dir) == Cardinality({x \in s : Before(x, r, dir)}) + 1

Pages(n, size) == IF n = 0 THEN 1 ELSE ((n - 1) \div size) + 1
PageCount(s, q, size) == Pages(Cardinality(Filtered(s, q)), size)

\* Mutant: the page begins a row late.
OnPageLate(p, s, q, dir, size) ==
  {r \in Filtered(s, q) :
     Place(r, Filtered(s, q), dir) \in (p - 1) * size + 2 .. p * size + 1}

\* pageRows.
OnPage(p, s, q, dir, size) ==
  {r \in Filtered(s, q) :
     Place(r, Filtered(s, q), dir) \in (p - 1) * size + 1 .. p * size}
Shown == OnPage(page, rows, filter, sortDir, pageSize)

\* Without a key, the place on the page.
KeyFor(r) == IF keyed THEN r ELSE Place(r, Shown, sortDir)
-----------------------------------------------------------------------------
\* The rows, the order or the page change.
Show(s, q, dir, p, size) ==
  /\ rows' = s /\ filter' = q /\ sortDir' = dir /\ page' = p /\ pageSize' = size
  /\ moved' = (moved \/ (ticks # {} /\ (OnPage(p, s, q, dir, size) # Shown \/ dir # sortDir)))
  /\ UNCHANGED <<keyed, ticks, meant>>

\* Other rows leave the page where it is.
Load(s) ==
  /\ Show(s, filter, sortDir, page, pageSize)
  /\ stranded' = (stranded \/ page > PageCount(s, filter, pageSize))

LookFor(q) ==
  /\ filter # q
  /\ Show(rows, q, sortDir, 1, pageSize) /\ stranded' = FALSE

ToggleSort ==
  /\ Filtered(rows, filter) # {}
  /\ Show(rows, filter, IF sortDir = "asc" THEN "desc" ELSE "asc", page, pageSize)
  /\ UNCHANGED stranded

\* The pager is there when there is more than one page.
Pager == PageCount(rows, filter, pageSize) > 1
Smaller(a, b) == IF a < b THEN a ELSE b
Larger(a, b) == IF a > b THEN a ELSE b
Turn(p) ==
  /\ Show(rows, filter, sortDir, p, pageSize)
  /\ stranded' = (p > PageCount(rows, filter, pageSize))
PrevPage == Pager /\ page > 1 /\ Turn(Larger(1, page - 1))
NextPage ==
  /\ Pager /\ page < PageCount(rows, filter, pageSize)
  /\ Turn(Smaller(PageCount(rows, filter, pageSize), page + 1))
SetPageSize(n) ==
  Pager /\ Show(rows, filter, sortDir, 1, n) /\ stranded' = FALSE

\* The view changes the size of the page, which leaves the page where it is.
GivePageSize(n) ==
  /\ Show(rows, filter, sortDir, page, n)
  /\ stranded' = (stranded \/ page > PageCount(rows, filter, n))

Tick(keys, toggled) ==
  /\ ticks' = keys /\ meant' = toggled
  /\ UNCHANGED <<rows, filter, sortDir, page, pageSize, keyed, stranded, moved>>

ToggleRow(r) ==
  /\ r \in Shown
  /\ IF KeyFor(r) \in ticks
     THEN Tick(ticks \ {KeyFor(r)}, meant \ {r})
     ELSE Tick(ticks \cup {KeyFor(r)}, meant \cup {r})

ToggleAllOnPage ==
  LET keys == {KeyFor(r) : r \in Shown}
  IN  /\ Filtered(rows, filter) # {}
      /\ IF keys # {} /\ keys \subseteq ticks
         THEN Tick(ticks \ keys, meant \ Shown)
         ELSE Tick(ticks \cup keys, meant \cup Shown)

DataTableNext ==
  \/ \E s \in SUBSET Ids : Load(s)
  \/ \E q \in {0} \cup {Value[r] : r \in Ids} : LookFor(q)
  \/ ToggleSort \/ PrevPage \/ NextPage
  \/ \E n \in Sizes : SetPageSize(n) \/ GivePageSize(n)
  \/ \E r \in Ids : ToggleRow(r)
  \/ ToggleAllOnPage
-----------------------------------------------------------------------------
DataTableTypeOK ==
  /\ rows \subseteq Ids /\ meant \subseteq Ids
  /\ page \in 1..Cardinality(Ids) /\ pageSize \in Sizes
  /\ sortDir \in {"none", "asc", "desc"}
  /\ keyed \in BOOLEAN /\ stranded \in BOOLEAN /\ moved \in BOOLEAN

\* The pages together show what the filter leaves, each row once, and the one
\* that is open shows something if there is anything, unless the rows or the
\* size of the page were changed by the view since it was chosen
\* (DataTable.vue:59-71).  Ticked are the rows that the user has ticked, after
\* any sorting, filtering and turning of pages; without a key only as long as
\* what the page shows stays as it was (DataTable.vue:143-146).
TableShows ==
  LET all == Filtered(rows, filter)
      at(p) == OnPage(p, rows, filter, sortDir, pageSize)
      last == PageCount(rows, filter, pageSize)
  IN  /\ UNION {at(p) : p \in 1..last} = all
      /\ \A p, q \in 1..last : p # q => at(p) \cap at(q) = {}
      /\ all # {} /\ ~stranded => Shown # {}
      /\ keyed => ticks = meant
      /\ ~keyed /\ ~moved => {r \in Shown : KeyFor(r) \in ticks} = meant
=============================================================================
