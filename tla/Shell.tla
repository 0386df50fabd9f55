------------------------------- MODULE Shell --------------------------------
(***************************************************************************)
(* The frame around the views (AppShell.vue), on a narrow screen: the      *)
(* sidebar as a drawer, the palette of pages (CommandPalette.vue), the     *)
(* confirmation that the payroll view asks for (ConfirmDialog.vue), and    *)
(* where the focus of the keyboard is.  All of them listen to the keys of  *)
(* the document.  A handler runs to its end with the watchers and the      *)
(* nextTick it leaves; the loading of a page, the answer of a server and   *)
(* the frame in which a heading is focused (lib/focus.ts) come later.      *)
(***************************************************************************)
EXTENDS Integers, FiniteSets

CONSTANTS NoPage  \* "no navigation is under way"

\* Two pages of the navigation, each in a group of its own, as in NAV_GROUPS.
Pages == {"payroll", "grants"}
Overlays == {"palette", "dialog", "drawer"}

\* What a query leaves of the pages.
Queries ==
  [q \in {"", "pay", "?"} |->
     {p \in Pages : q = "" \/ (q = "pay" /\ p = "payroll")}]

GroupOf == [payroll |-> "workforce", grants |-> "programmes"]
LinkOf == [payroll |-> "to_payroll", grants |-> "to_grants"]
Elements == {"menu", "search", "heading", "approve", "cancel", "confirm", "query"}
            \cup {GroupOf[p] : p \in Pages} \cup {LinkOf[p] : p \in Pages}

VARIABLES
  page, arriving,  \* route.path, and where the latest push is going
  frame,           \* a requestAnimationFrame of installRouteFocus is due
  permitted,       \* pages that permissions, modules and flags leave
  groups,          \* openGroups
  open,            \* drawerOpen, paletteOpen, approveId
  query, active,   \* of the palette
  trigger,         \* previouslyFocused of the palette
  run,             \* the run's button to approve: "offered", "busy" or "gone"
  focus,           \* document.activeElement, or "body"
  \* Not in the code.
  wandered,        \* the focus has left an overlay that is open
  adrift,          \* it was on what has gone, for one of three reasons
  folded           \* the group of the page was closed, or hidden when it came

shellVars == <<page, arriving, frame, permitted, groups, open, query,
               active, trigger, run, focus, wandered, adrift, folded>>
route == <<page, arriving, frame, permitted>>
side == <<groups, folded>>
search == <<query, active, trigger>>

ShellInit ==
  /\ page \in Pages /\ permitted = Pages /\ groups = {page}
  /\ arriving = NoPage /\ frame = TRUE
  /\ open = {} /\ query = "" /\ active = 0 /\ trigger = "body"
  /\ run = "offered" /\ focus = "body"
  /\ wandered = FALSE /\ adrift = FALSE /\ folded = FALSE

Sidebar == {GroupOf[p] : p \in permitted} \cup {LinkOf[p] : p \in permitted \cap groups}

\* What can be focused.  A closed drawer is moved off the screen, not hidden.
Shown ==
  {"menu", "search", "heading"} \cup Sidebar
  \cup {e \in {"query"} : "palette" \in open}
  \cup {e \in {"cancel", "confirm"} : "dialog" \in open}
  \cup {e \in {"approve"} : page = "payroll" /\ run = "offered"}

\* An overlay covers what is behind it from the pointer, not from the keyboard.
Clickable ==
  IF "palette" \in open THEN {}
  ELSE IF "dialog" \in open THEN {"cancel", "confirm"}
  ELSE IF "drawer" \in open THEN Sidebar
  ELSE {"menu", "search", "approve"}
Pressed(e) == e \in Shown /\ (focus = e \/ e \in Clickable)

\* An element that has gone leaves the focus to the body.
MoveTo(e) == focus' = IF e \in Shown' THEN e ELSE "body"

\* Whether the focus leaves an overlay here; over when none is open.
Leave(b) == wandered' = (open' \cap {"palette", "dialog"} # {} /\ (wandered \/ b))

Land(e) == MoveTo(e) /\ Leave(FALSE)

\* What the palette sets anew when it opens.
Forget == query' = "" /\ active' = 0 /\ trigger' = "body"

Keep == adrift' = (adrift /\ focus' = "body")
-----------------------------------------------------------------------------
(* Navigation.                                                             *)

\* router.push; to the page that is open it ends at once.  afterEach is told of
\* that, and of an earlier push that comes to nothing by this one.
Push(p) ==
  /\ arriving' = IF p = page THEN NoPage ELSE p
  /\ frame' = (frame \/ p = page \/ arriving # NoPage)
  /\ UNCHANGED <<page, permitted>>

\* The page is there: its view takes the place of the other, dialog and all;
\* syncOpenGroups, closeDrawer, and afterEach.
Arrive ==
  /\ arriving # NoPage
  /\ page' = arriving /\ arriving' = NoPage /\ frame' = TRUE
  /\ open' = open \ {"dialog", "drawer"}
  /\ groups' = groups \cup ({page'} \cap permitted) /\ folded' = FALSE
  /\ run' \in IF run = "busy" THEN {"offered", "gone"} ELSE {run}
  /\ UNCHANGED <<permitted, search>>
  /\ MoveTo(IF "drawer" \in open THEN "menu" ELSE focus)
  /\ Leave("drawer" \in open) /\ Keep

\* installRouteFocus, whatever is open by then.
Frame ==
  /\ frame /\ frame' = FALSE /\ focus' = "heading" /\ adrift' = FALSE
  /\ UNCHANGED <<page, arriving, permitted, side, open, search, run>>
  /\ Leave(TRUE)

\* The guard of a navigation loads the configuration, which the sidebar and the
\* palette show at once; watch(filtered).  Bound: the one module that is switched
\* off and on again is payroll.
Reconfigure ==
  /\ arriving # NoPage
  /\ permitted' \in {Pages, {"grants"}}
  /\ arriving' = IF arriving \in permitted' THEN arriving ELSE "forbidden"
  /\ active' = 0
  /\ folded' = (folded \/ page \in permitted' \ (permitted \cup groups))
  /\ UNCHANGED <<page, frame, groups, open, query, trigger, run>>
  /\ Land(focus)
  /\ adrift' = (focus' = "body")
-----------------------------------------------------------------------------
(* The palette.                                                            *)

\* The items, whose order says nothing here.
Filtered == permitted \cap Queries[query]

\* The button, or Ctrl+K wherever the focus is.
OpenPalette ==
  /\ "palette" \notin open
  /\ trigger' \in {focus} \cup {e \in {"search"} : Pressed(e)}
  /\ open' = open \cup {"palette"} /\ query' = "" /\ active' = 0
  /\ UNCHANGED <<route, side, run>>
  /\ Land("query") /\ Keep

\* watch(filtered)
Type(q) ==
  /\ focus = "query" /\ query' = q /\ active' = 0
  /\ UNCHANGED <<route, side, open, trigger, run, focus, wandered, adrift>>

Arrow ==
  /\ "palette" \in open
  /\ \/ active' = IF active + 1 < Cardinality(Filtered)
                   THEN active + 1 ELSE Cardinality(Filtered) - 1
     \/ active' = IF active > 0 THEN active - 1 ELSE 0
  /\ UNCHANGED <<route, side, open, query, trigger, run, focus, wandered, adrift>>

\* watch(open): back to where the focus was, if that is still there.
ClosePalette ==
  /\ "palette" \in open /\ open' = open \ {"palette"} /\ Forget
  /\ UNCHANGED <<side, run>>
  /\ Land(IF trigger \in Shown' THEN trigger ELSE focus)
  /\ adrift' = (focus' = "body")

\* go: Enter for the active item, or a click on any.
Go == (\E p \in Filtered : Push(p)) /\ ClosePalette
-----------------------------------------------------------------------------
(* The drawer, the dialog and the keys.                                    *)

\* With a list, Enter belongs to the palette.
Follow(p) ==
  /\ Pressed(LinkOf[p]) /\ ("palette" \in open => Filtered = {})
  /\ Push(p) /\ focus' = LinkOf[p] /\ adrift' = FALSE
  /\ UNCHANGED <<side, open, search, run, wandered>>

ToggleGroup(p) ==
  /\ Pressed(GroupOf[p])
  /\ groups' = IF p \in groups THEN groups \ {p} ELSE groups \cup {p}
  /\ folded' = IF p = page THEN p \in groups ELSE folded
  /\ focus' = GroupOf[p] /\ adrift' = FALSE
  /\ UNCHANGED <<route, open, search, run, wandered>>

\* openDrawer, which leaves the focus where it is, and closeDrawer by the
\* button or the scrim.
Menu ==
  /\ Pressed("menu") \/ open = {"drawer"}
  /\ open' = IF "drawer" \in open THEN open \ {"drawer"} ELSE open \cup {"drawer"}
  /\ focus' = "menu" /\ adrift' = FALSE
  /\ UNCHANGED <<route, side, search, run, wandered>>

Approve ==
  /\ Pressed("approve") /\ "dialog" \notin open
  /\ open' = open \cup {"dialog"}
  /\ UNCHANGED <<route, side, search, run>>
  /\ Land("cancel") /\ Keep

\* The button or the backdrop.
Cancel ==
  /\ Pressed("cancel") \/ ("dialog" \in open /\ "palette" \notin open)
  /\ open' = open \ {"dialog"}
  /\ UNCHANGED <<route, side, search, run>>
  /\ Land("approve") /\ Keep

\* confirmApprove: its button is disabled before it could have the focus back.
Confirm ==
  /\ Pressed("confirm") /\ run' = "busy"
  /\ open' = open \ {"dialog"}
  /\ UNCHANGED <<route, side, search>>
  /\ Land("approve") /\ adrift' = TRUE

\* Approved, or refused and offered again.
Answer ==
  /\ run = "busy" /\ run' \in {"offered", "gone"}
  /\ UNCHANGED <<route, side, open, search, focus, wandered, adrift>>

\* Each that is open closes; the listener of the dialog is the first or the last.
Escape ==
  /\ open # {} /\ open' = {} /\ Forget
  /\ UNCHANGED <<route, side, run>>
  /\ \E order \in {<<"dialog", "palette", "drawer">>, <<"palette", "drawer", "dialog">>} :
       LET back == [dialog |-> "approve", palette |-> trigger, drawer |-> "menu"]
           Close(f, o) == IF o \in open /\ back[o] \in Shown' THEN back[o] ELSE f
       IN  Land(Close(Close(Close(focus, order[1]), order[2]), order[3]))
  /\ adrift' = (focus' = "body")

\* The dialog keeps the focus that is in it; the palette does not, nor does the
\* drawer, whose last element is hidden on a narrow screen.
Tab ==
  /\ \E e \in Shown \ {"heading", focus} :
       /\ focus \in {"cancel", "confirm"} => e \in {"cancel", "confirm"}
       /\ focus' = e
  /\ adrift' = FALSE
  /\ UNCHANGED <<route, side, open, search, run>>
  /\ Leave(focus \notin {"cancel", "confirm"})

ShellNext ==
  \/ Arrive \/ Frame \/ Reconfigure
  \/ OpenPalette \/ \E q \in DOMAIN Queries : Type(q)
  \/ Arrow \/ (UNCHANGED route /\ ClosePalette) \/ Go
  \/ \E p \in permitted : Follow(p) \/ ToggleGroup(p)
  \/ Menu \/ Approve \/ Cancel \/ Confirm \/ Answer \/ Escape \/ Tab
-----------------------------------------------------------------------------
ShellTypeOK ==
  /\ page \in Pages \cup {"forbidden"} /\ arriving \in Pages \cup {"forbidden", NoPage}
  /\ {frame, wandered, adrift, folded} \subseteq BOOLEAN
  /\ permitted \subseteq Pages /\ groups \subseteq Pages /\ open \subseteq Overlays
  /\ query \in DOMAIN Queries /\ active \in -1..Cardinality(Pages) - 1
  /\ {trigger, focus} \subseteq Elements \cup {"body"}
  /\ run \in {"offered", "busy", "gone"}

\* The focus is in the overlay on top, unless the user has tabbed out of the
\* palette or a navigation has taken it away; it is nowhere only until that
\* heading has it, or where a confirmed dialog, a change of what is permitted or
\* a palette whose trigger has gone leave nothing to return it to (19-frontend-
\* architecture.md:249).  The palette marks one of the items it shows, if it shows
\* any, and the sidebar shows the page that is open, unless its group was closed
\* or was not there when the page came.
ShellAgrees ==
  /\ "palette" \in open /\ ~wandered => focus = "query"
  /\ "dialog" \in open /\ "palette" \notin open /\ ~wandered =>
       focus \in {"cancel", "confirm"}
  /\ focus \in Shown \cup {"body"}
  /\ focus = "body" => frame \/ adrift
  /\ "palette" \in open /\ Filtered # {} => active \in 0..Cardinality(Filtered) - 1
  /\ page \in permitted => page \in groups \/ folded
=============================================================================
