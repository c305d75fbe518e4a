------------------------------ MODULE Dashboard ------------------------------
(***************************************************************************)
(* The table of the dashboard: which rows of the snapshot it shows         *)
(* (filter, problems only, grouping, sorting), the cursor, the marks and   *)
(* the rows an action takes (tui/app*.py, filtering.py).  Refreshes come   *)
(* in between all of it.                                                   *)
(*                                                                         *)
(* A row is its key; that it has the port, project and value of a          *)
(* constant is the abstraction, its status is new in every snapshot.       *)
(* Left out: cells, colours, scrolling, panels, toasts, projects whose     *)
(* names differ in case alone, and the term `new:`, whose rows change with *)
(* the time and are drawn again by whatever comes next.                    *)
(***************************************************************************)
EXTENDS Integers, SequencesExt, Lists

CONSTANTS
  RowKeys,     \* the rows there can be: their ports
  ProjectOf,   \* per row its project
  NameOf,      \* per project its place in the alphabet
  ValueOf,     \* per row the value of the column that is not the port
  FilterTexts  \* what is typed: sequences of terms [key, value, negate]

Statuses == {"healthy", "problem"}
Projects == {ProjectOf[r] : r \in RowKeys}

ASSUME DashboardAssumption ==
  /\ RowKeys \subseteq Nat /\ IsFiniteSet(RowKeys)
  /\ ValueOf \in [RowKeys -> Nat] /\ DOMAIN ProjectOf = RowKeys
  /\ NameOf \in Injection(Projects, Nat)
  /\ <<>> \in FilterTexts

VARIABLES
  rows,         \* snapshot.listeners: per row that is there its status
  collecting,   \* _refreshing
  filterTerms,  \* filter_text, parsed
  commandMode, problemsOnly,
  isGrouped, collapsed,
  sortKey, sortReverse,
  rowOrder,     \* _row_order: the keys of the table, headers among them
  selectedKey,  \* _selected_key: in a set, empty if there is none
  marked

dashVars == <<rows, collecting, filterTerms, commandMode, problemsOnly, isGrouped, collapsed,
              sortKey, sortReverse, rowOrder, selectedKey, marked>>

RowKey(r) == <<"row", r>>
GroupKey(p) == <<"group", p>>
Keys == {RowKey(r) : r \in RowKeys} \cup {GroupKey(p) : p \in Projects}

DashboardTypeOK ==
  /\ DOMAIN rows \subseteq RowKeys /\ \A r \in DOMAIN rows : rows[r] \in Statuses
  /\ filterTerms \in FilterTexts
  /\ {collecting, commandMode, problemsOnly, isGrouped, sortReverse} \subseteq BOOLEAN
  /\ collapsed \subseteq Projects /\ sortKey \in {"port", "value"}
  /\ rowOrder \in Seq(Keys) /\ selectedKey \subseteq Keys /\ marked \subseteq RowKeys

-----------------------------------------------------------------------------
(* filtering.py *)

\* _field, for the fields the terms name.
Field(there, r, key) ==
  CASE key = "project" -> ProjectOf[r]
    [] key = "status" -> there[r]
    [] key = "port" -> r

\* term_matches
TermMatches(there, r, term) == (Field(there, r, term.key) = term.value) # term.negate

\* matches, of all the terms parse_filter makes.
Matches(there, r, terms) == \A i \in DOMAIN terms : TermMatches(there, r, terms[i])

-----------------------------------------------------------------------------
(* app_table.py *)

\* The sort key of a row: the port breaks ties.
Before(key, a, b) ==
  IF key = "port" \/ ValueOf[a] = ValueOf[b] THEN a < b ELSE ValueOf[a] < ValueOf[b]

\* visible_listeners, of a view: the rows and what the user asked to see of them.
Visible(v) == {r \in DOMAIN v.there : /\ v.problems => v.there[r] = "problem"
                                      /\ Matches(v.there, r, v.terms)}

\* The order of the groups: the rows of no project come last.
Ungrouped == "local"
GroupBefore(p, q) ==
  IF Ungrouped \in {p, q} THEN p # Ungrouped ELSE NameOf[p] < NameOf[q]

\* The keys of the table: a header per group, and the rows of those that are not folded.
InTable(v) ==
  {RowKey(r) : r \in {s \in Visible(v) : v.grouped => ProjectOf[s] \notin v.folded}}
  \cup (IF v.grouped THEN {GroupKey(ProjectOf[r]) : r \in Visible(v)} ELSE {})

GroupOf(k) == IF k[1] = "row" THEN ProjectOf[k[2]] ELSE k[2]

\* _grouped_rows: group by group, the header first; the sort key orders the rows.
Above(v, k, l) ==
  IF v.grouped /\ GroupOf(k) # GroupOf(l) THEN GroupBefore(GroupOf(k), GroupOf(l))
  ELSE IF k[1] = "row" /\ l[1] = "row"
    THEN IF v.reverse THEN Before(v.key, l[2], k[2]) ELSE Before(v.key, k[2], l[2])
    ELSE k[1] = "group" /\ l[1] = "row"

Order(v) == Sorted(InTable(v), {kl \in InTable(v) \X InTable(v) : Above(v, kl[1], kl[2])})

\* Where the cursor goes when the rows are rebuilt: with its row, to the first if that is gone.
CursorFirst(order, selected) == IF order = <<>> THEN {} ELSE {order[1]}
CursorAfter(order, selected) ==
  IF \E k \in selected : Contains(order, k) THEN selected
  ELSE IF order = <<>> THEN {} ELSE {order[1]}

View == [there |-> rows, terms |-> filterTerms, problems |-> problemsOnly, key |-> sortKey,
         reverse |-> sortReverse, grouped |-> isGrouped, folded |-> collapsed]

\* update_table of a view: also drops the marks of rows that are gone.
UpdateTable(v, marks, selected) ==
  /\ rowOrder' = Order(v)
  /\ selectedKey' = CursorAfter(Order(v), selected)
  /\ marked' = marks \cap DOMAIN v.there

-----------------------------------------------------------------------------
(* app.py: refreshes *)

\* refresh_data: not while a collection runs.
RefreshData ==
  /\ ~collecting
  /\ collecting' = TRUE
  /\ UNCHANGED <<rows, filterTerms, commandMode, problemsOnly, isGrouped, collapsed, sortKey,
                 sortReverse, rowOrder, selectedKey, marked>>

ApplySnapshot(there) ==
  /\ collecting
  /\ collecting' = FALSE
  /\ rows' = there
  /\ UpdateTable([View EXCEPT !.there = there], marked, selectedKey)
  /\ UNCHANGED <<filterTerms, commandMode, problemsOnly, isGrouped, collapsed, sortKey, sortReverse>>

RefreshFails ==
  /\ collecting
  /\ collecting' = FALSE
  /\ UNCHANGED <<rows, filterTerms, commandMode, problemsOnly, isGrouped, collapsed, sortKey,
                 sortReverse, rowOrder, selectedKey, marked>>

-----------------------------------------------------------------------------
(* app_filter.py *)

SetFilter(terms) ==
  /\ ~commandMode
  /\ terms # filterTerms
  /\ filterTerms' = terms
  /\ UpdateTable([View EXCEPT !.terms = terms], marked, selectedKey)
  /\ UNCHANGED <<rows, collecting, commandMode, problemsOnly, isGrouped, collapsed, sortKey, sortReverse>>

\* A slash and what follows names a command.  _filter_changed draws the rows with that text
\* first, and it is dropped from the filter at once: if no row has it, the cursor is lost.
CommandText(inNoRow) ==
  /\ filterTerms' = <<>>
  /\ UpdateTable([View EXCEPT !.terms = <<>>], marked, IF inNoRow THEN {} ELSE selectedKey)
  /\ UNCHANGED <<rows, collecting, problemsOnly, isGrouped, collapsed, sortKey, sortReverse>>

EnterCommandMode(inNoRow) == ~commandMode /\ commandMode' = TRUE /\ CommandText(inNoRow)

TypeCommand(inNoRow) == commandMode /\ commandMode' = TRUE /\ CommandText(inNoRow)

\* Enter runs the command and Esc none, and both empty the box; the slash deleted, what is left
\* in the box is a filter.
LeaveCommandMode(terms) ==
  /\ commandMode
  /\ commandMode' = FALSE
  /\ filterTerms' = terms
  /\ UpdateTable([View EXCEPT !.terms = terms], marked, selectedKey)
  /\ UNCHANGED <<rows, collecting, problemsOnly, isGrouped, collapsed, sortKey, sortReverse>>

\* action_escape: the filter goes first, then the marks; then the menu opens.
Escape ==
  /\ ~commandMode
  /\ filterTerms # <<>> \/ marked # {}
  /\ filterTerms' = <<>>
  /\ UpdateTable([View EXCEPT !.terms = <<>>], IF filterTerms = <<>> THEN {} ELSE marked, selectedKey)
  /\ UNCHANGED <<rows, collecting, commandMode, problemsOnly, isGrouped, collapsed, sortKey, sortReverse>>

\* action_sort and a click on a header: another column, or the other way round.
Sort(key, reverse) ==
  /\ <<key, reverse>> # <<sortKey, sortReverse>>
  /\ key # sortKey => ~reverse
  /\ sortKey' = key /\ sortReverse' = reverse
  /\ UpdateTable([View EXCEPT !.key = key, !.reverse = reverse], marked, selectedKey)
  /\ UNCHANGED <<rows, collecting, filterTerms, commandMode, problemsOnly, isGrouped, collapsed>>

ToggleProblems ==
  /\ problemsOnly' = ~problemsOnly
  /\ UpdateTable([View EXCEPT !.problems = ~@], marked, selectedKey)
  /\ UNCHANGED <<rows, collecting, filterTerms, commandMode, isGrouped, collapsed, sortKey, sortReverse>>

ToggleGrouping ==
  /\ isGrouped' = ~isGrouped
  /\ UpdateTable([View EXCEPT !.grouped = ~@], marked, selectedKey)
  /\ UNCHANGED <<rows, collecting, filterTerms, commandMode, problemsOnly, collapsed, sortKey, sortReverse>>

\* Space, Enter and i on a header fold the group or open it.
ToggleCollapse(p) ==
  /\ selectedKey = {GroupKey(p)}
  /\ collapsed' = IF p \in collapsed THEN collapsed \ {p} ELSE collapsed \cup {p}
  /\ UpdateTable([View EXCEPT !.folded = collapsed'], marked, selectedKey)
  /\ UNCHANGED <<rows, collecting, filterTerms, commandMode, problemsOnly, isGrouped, sortKey, sortReverse>>

-----------------------------------------------------------------------------
(* app_marks.py *)

MoveCursor(k) ==
  /\ Contains(rowOrder, k)
  /\ selectedKey # {k}
  /\ selectedKey' = {k}
  /\ UNCHANGED <<rows, collecting, filterTerms, commandMode, problemsOnly, isGrouped, collapsed,
                 sortKey, sortReverse, rowOrder, marked>>

\* action_mark: the row under the cursor is marked or not, and the cursor moves on.
Mark(r) ==
  /\ selectedKey = {RowKey(r)}
  /\ marked' = IF r \in marked THEN marked \ {r} ELSE marked \cup {r}
  /\ LET at == CHOOSE i \in DOMAIN rowOrder : rowOrder[i] = RowKey(r) IN
     selectedKey' = IF at < Len(rowOrder) THEN {rowOrder[at + 1]} ELSE selectedKey
  /\ UNCHANGED <<rows, collecting, filterTerms, commandMode, problemsOnly, isGrouped, collapsed,
                 sortKey, sortReverse, rowOrder>>

\* action_mark_all: the rows of the table, and not those of folded groups.
MarkAll ==
  /\ LET drawn == {r \in RowKeys : Contains(rowOrder, RowKey(r))} IN
     marked' = IF drawn # {} /\ drawn \subseteq marked THEN marked \ drawn ELSE marked \cup drawn
  /\ UNCHANGED <<rows, collecting, filterTerms, commandMode, problemsOnly, isGrouped, collapsed,
                 sortKey, sortReverse, rowOrder, selectedKey>>

\* targets: what kill, restart and the like take.
Targets ==
  IF marked # {} THEN marked \cap Visible(View)
  ELSE {r \in DOMAIN rows : RowKey(r) \in selectedKey}

-----------------------------------------------------------------------------
DashboardInit ==
  /\ rows = [r \in {} |-> "healthy"] /\ collecting = FALSE
  /\ filterTerms = <<>> /\ commandMode = FALSE /\ problemsOnly = FALSE
  /\ isGrouped \in BOOLEAN /\ collapsed = {}
  /\ sortKey = "port" /\ sortReverse = FALSE
  /\ rowOrder = <<>> /\ selectedKey = {} /\ marked = {}

DashboardNext ==
  \/ RefreshData \/ RefreshFails
  \/ \E there \in UNION {[live -> Statuses] : live \in SUBSET RowKeys} : ApplySnapshot(there)
  \/ \E terms \in FilterTexts : SetFilter(terms) \/ LeaveCommandMode(terms)
  \/ \E inNoRow \in BOOLEAN : EnterCommandMode(inNoRow) \/ TypeCommand(inNoRow)
  \/ Escape
  \/ \E key \in {"port", "value"}, reverse \in BOOLEAN : Sort(key, reverse)
  \/ ToggleProblems \/ ToggleGrouping
  \/ \E p \in Projects : ToggleCollapse(p)
  \/ \E k \in Keys : MoveCursor(k)
  \/ \E r \in RowKeys : Mark(r)
  \/ MarkAll

DashboardSpec == DashboardInit /\ [][DashboardNext]_dashVars

-----------------------------------------------------------------------------
(* The rows move under the user with every refresh, and what a key takes   *)
(* then is still what the user has chosen: rows that were marked, or the   *)
(* row the cursor was on before, unless that row is gone (update_table,    *)
(* targets).  If the last mark goes with its row the cursor counts again.  *)
TargetsAreKept ==
  collecting /\ ~collecting' =>
    \A r \in Targets' : \/ r \in marked
                        \/ RowKey(r) \in selectedKey
                        \/ \A k \in selectedKey : ~Contains(rowOrder', k)

TargetsStay == [][TargetsAreKept]_dashVars

\* After whatever the user or a refresh does, the table has what passes the filter once and
\* in its place, and what a key would act on is there: the cursor on a row of the table, the
\* marks on rows of the snapshot (update_table, called by every handler that changes one).
TableIsDrawn ==
  /\ \A k \in Keys : Contains(rowOrder, k) <=> k \in InTable(View)
  /\ \A i, j \in 1..Len(rowOrder) : i < j => rowOrder[i] # rowOrder[j] /\ Above(View, rowOrder[i], rowOrder[j])
  /\ selectedKey = {} <=> rowOrder = <<>>
  /\ \A k \in selectedKey : Contains(rowOrder, k)
  /\ marked \subseteq DOMAIN rows
=============================================================================
