----------------------------- MODULE ConsoleList -----------------------------
(***************************************************************************)
(* What the dashboard page keeps of the operator's own arrangement through *)
(* the swaps of the stream (tools/dashboard_scripts.py): the filtered,     *)
(* sorted and paginated engagement list with its check marks, the order,   *)
(* width and collapse of the panels, and the rotation of TV mode.  All of  *)
(* it lives in the browser's storage, is put on the page by the handler    *)
(* of a click, and is put there again after every swap.                    *)
(*                                                                         *)
(* A row is a number, its sort key; the filter keeps the rows above a      *)
(* threshold.  A row hidden on the page is hidden by `display: none`,      *)
(* whoever hid it.  Panels sit in two grid rows, as sequences.             *)
(***************************************************************************)
EXTENDS Naturals, Sequences, SequencesExt, FiniteSets

CONSTANTS MaxRow, PageSize, DefaultGrid, MaxMoves

Panel == UNION {Range(DefaultGrid[i]) : i \in DOMAIN DefaultGrid}

ASSUME ListAssumption == PageSize \in Nat \ {0} /\ MaxRow \in Nat /\ MaxMoves \in Nat

\* The page as served has each panel once, and NextSibling a word for "no next".
ASSUME GridAssumption ==
    /\ DefaultGrid \in Seq(Seq(Panel)) /\ DefaultGrid # <<>>
    /\ \A i, k \in DOMAIN DefaultGrid : \A j \in DOMAIN DefaultGrid[i], l \in DOMAIN DefaultGrid[k] :
          DefaultGrid[i][j] = DefaultGrid[k][l] => i = k /\ j = l
    /\ "end" \notin Panel

VARIABLES
    rows,      \* the rows of the list, as the last swap brought them
    order,     \* the rows as they stand in the list
    hidden,    \* the rows with display: none
    filter,    \* the filter: rows above it match
    asc,       \* sort direction
    pageNo,    \* localStorage "plenith-eng-page"
    info,      \* the page line: total, page, maxPage
    checked,   \* the multi-select set
    marked,    \* the rows whose box shows a mark
    grid,      \* the panels on the page, one sequence per grid row
    saved,     \* the current arrangement in localStorage; <<>> for none
    named,     \* the named arrangements
    folded,    \* localStorage: the collapsed panels
    foldedDom, \* the panels collapsed on the page
    foreign,   \* another tab has stored an arrangement since the last swap
    tv, away, rotating,
    moves

listVars == <<rows, order, hidden, filter, asc, pageNo, info, checked, marked>>
gridVars == <<grid, saved, named, folded, foldedDom, foreign>>
tvVars == <<tv, away, rotating>>
consoleListVars == <<listVars, gridVars, tvVars, moves>>

Move == moves < MaxMoves /\ moves' = moves + 1

Matching(rs, f) == {r \in rs : r > f}
Ceil(n, d) == (n + d - 1) \div d
AtLeast1(n) == IF n < 1 THEN 1 ELSE n
Ascending(ns) == [k \in 1..Cardinality(ns) |->
                    CHOOSE n \in ns : Cardinality({m \in ns : m < n}) = k - 1]
Sorted(rs, up) == IF up THEN Ascending(rs) ELSE Reverse(Ascending(rs))

\* applyFilter: every row shown or hidden by the filter alone
FilterHides(rs, f) == rs \ Matching(rs, f)

(***************************************************************************)
(* applyEngSortAndPage: sort, take the rows that are not hidden, clamp the *)
(* page to what they fill, and hide those of them off the page.            *)
(***************************************************************************)
Paged(rs, hid, up, page) ==
    LET visible == Sorted(rs \ hid, up)
        max     == AtLeast1(Ceil(Len(visible), PageSize))
        p       == IF page > max THEN max ELSE page
        on      == {visible[i] : i \in {j \in DOMAIN visible :
                                          (p - 1) * PageSize < j /\ j <= p * PageSize}}
    IN  [order  |-> Sorted(rs, up),
         hidden |-> hid \cup (rs \ on),
         page   |-> p,
         info   |-> [total |-> Len(visible), page |-> p, max |-> max]]

SetList(rs, hid, up, page) ==
    LET p == Paged(rs, hid, up, page)
    IN  /\ order' = p.order /\ hidden' = p.hidden /\ pageNo' = p.page /\ info' = p.info

ListInit ==
    /\ rows = 1..(PageSize + 1)
    /\ filter = 0 /\ asc = FALSE
    /\ LET p == Paged(rows, {}, FALSE, 1)
       IN  order = p.order /\ hidden = p.hidden /\ pageNo = p.page /\ info = p.info
    /\ checked = {} /\ marked = {}
    /\ grid = DefaultGrid /\ saved = <<>> /\ named = {} /\ folded = {} /\ foldedDom = {}
    /\ foreign = FALSE
    /\ tv = FALSE /\ away = FALSE /\ rotating = 0
    /\ moves = 0

\* a keystroke in the search box or a chip: the filter is applied alone
Filter(f) ==
    /\ Move /\ filter' = f
    /\ hidden' = FilterHides(rows, f)
    /\ UNCHANGED <<rows, order, asc, pageNo, info, checked, marked, gridVars, tvVars>>

\* a sort chip turns the direction and goes to the first page
SortClick ==
    /\ Move /\ asc' = ~asc
    /\ SetList(rows, hidden, ~asc, 1)
    /\ UNCHANGED <<rows, filter, checked, marked, gridVars, tvVars>>

\* next and previous, as long as the page line leaves them enabled
Turn(step) ==
    /\ Move
    /\ IF step = "next" THEN info.page < info.max ELSE info.page > 1
    /\ SetList(rows, hidden, asc, IF step = "next" THEN pageNo + 1 ELSE pageNo - 1)
    /\ UNCHANGED <<rows, filter, asc, checked, marked, gridVars, tvVars>>

\* a check mark; the set is kept when its row is filtered away
Check(r) ==
    /\ Move /\ r \in rows \ hidden
    /\ checked' = IF r \in checked THEN checked \ {r} ELSE checked \cup {r}
    /\ marked' = checked' \cap rows
    /\ UNCHANGED <<rows, order, hidden, filter, asc, pageNo, info, gridVars, tvVars>>

-----------------------------------------------------------------------------
\* DOM moves: take a panel out of its row, put it before another or at the end
PlaceOf(s, p) == CHOOSE j \in DOMAIN s : s[j] = p
RowOf(g, p) == CHOOSE i \in DOMAIN g : p \in Range(g[i])
Without(g, p) ==
    LET i == RowOf(g, p) IN [g EXCEPT ![i] = RemoveAt(g[i], PlaceOf(g[i], p))]
NextSibling(g, p) ==
    LET s == g[RowOf(g, p)]
        j == PlaceOf(s, p)
    IN  IF j < Len(s) THEN s[j + 1] ELSE "end"
InsertBefore(g, i, p, ref) ==
    LET h == Without(g, p)
        s == h[i]
        k == IF ref = "end" THEN Len(s) + 1 ELSE PlaceOf(s, ref)
    IN  [h EXCEPT ![i] = InsertAt(s, k, p)]

\* _swapPanels: both places are remembered, then both panels are moved
SwapPanels_OneMove(g, p, q) ==
    InsertBefore(g, RowOf(g, q), p, IF NextSibling(g, q) = p THEN NextSibling(g, p) ELSE NextSibling(g, q))
SwapPanels(g, p, q) ==
    LET nextP == NextSibling(g, p)
        nextQ == NextSibling(g, q)
        g1    == InsertBefore(g, RowOf(g, q), p, IF nextQ = p THEN nextP ELSE nextQ)
    IN  InsertBefore(g1, RowOf(g, p), q, IF nextP = q THEN NextSibling(g1, q) ELSE nextP)

\* applyArrangement: every panel listed goes to the end of its row, in the
\* stored order; the others are left where they are, in front
Listed(a) == UNION {Range(a[i]) : i \in DOMAIN a}
Others(s, a) == LET keep == Ascending({j \in DOMAIN s : s[j] \notin Listed(a)})
                IN  [k \in DOMAIN keep |-> s[keep[k]]]
Applied(g, a) == [i \in DOMAIN g |-> Others(g[i], a) \o a[i]]
Arranged(g, a) == IF a = <<>> THEN g ELSE Applied(g, a)

\* drag and drop, or the keyboard's picker
MovePanel(p, q) ==
    /\ Move /\ p # q
    /\ grid' = SwapPanels(grid, p, q)
    /\ saved' = grid' /\ foreign' = FALSE
    /\ UNCHANGED <<named, folded, foldedDom, listVars, tvVars>>

\* the layout menu
SaveLayout ==
    /\ Move
    /\ named' = named \cup {grid}
    /\ UNCHANGED <<grid, saved, folded, foldedDom, foreign, listVars, tvVars>>
RestoreLayout(a) ==
    /\ Move
    /\ grid' = Applied(grid, a) /\ saved' = a /\ foreign' = FALSE
    /\ UNCHANGED <<named, folded, foldedDom, listVars, tvVars>>
DeleteLayout(a) ==
    /\ Move
    /\ named' = named \ {a}
    /\ UNCHANGED <<grid, saved, folded, foldedDom, foreign, listVars, tvVars>>
\* reset forgets the arrangement and reloads the page
ResetLayout ==
    /\ Move /\ saved # <<>>
    /\ saved' = <<>> /\ grid' = DefaultGrid /\ foreign' = FALSE /\ foldedDom' = folded
    /\ UNCHANGED <<named, folded, listVars, tvVars>>

\* applyState: what is stored as collapsed, is
ApplyFolds == foldedDom' = folded'

Fold(p) ==
    /\ Move
    /\ folded' = IF p \in folded THEN folded \ {p} ELSE folded \cup {p}
    /\ ApplyFolds
    /\ UNCHANGED <<grid, saved, named, foreign, listVars, tvVars>>

\* another tab of the same browser moves a panel
OtherTab(p, q) ==
    /\ Move /\ p # q
    /\ saved' = SwapPanels(Arranged(DefaultGrid, saved), p, q) /\ foreign' = TRUE
    /\ UNCHANGED <<grid, named, folded, foldedDom, listVars, tvVars>>
-----------------------------------------------------------------------------
\* TV mode: one timer, stopped while the tab is away
ToggleTv ==
    /\ Move /\ ~away
    /\ tv' = ~tv /\ rotating' = IF tv THEN 0 ELSE 1
    /\ UNCHANGED <<away, listVars, gridVars>>
Visibility ==
    /\ Move /\ away' = ~away
    /\ rotating' = CASE ~tv -> rotating [] tv /\ ~away -> 0 [] OTHER -> 1
    /\ UNCHANGED <<tv, listVars, gridVars>>

\* plenithReapplyClientState, in its order: arrangement, filter, sort and page,
\* collapse
Reapply(rs, g) ==
    /\ grid' = Arranged(g, saved) /\ foreign' = FALSE
    /\ SetList(rs, FilterHides(rs, filter), asc, pageNo)
    /\ foldedDom' = folded

\* the batch bar's Clear
ClearChecks ==
    /\ Move /\ checked # {}
    /\ checked' = {} /\ marked' = {}
    /\ Reapply(rows, grid)
    /\ UNCHANGED <<rows, filter, asc, saved, named, folded, tvVars>>

\* a swap: fresh rows and the default grid, then all of it again
SwapList(rs) ==
    /\ Move
    /\ rows' = rs /\ marked' = checked \cap rs
    /\ Reapply(rs, DefaultGrid)
    /\ UNCHANGED <<filter, asc, checked, saved, named, folded, tvVars>>

ListNext ==
    \/ \E f \in 0..1 : Filter(f)
    \/ SortClick \/ Turn("next") \/ Turn("prev") \/ ClearChecks
    \/ \E r \in rows : Check(r)
    \/ \E p, q \in Panel : MovePanel(p, q) \/ OtherTab(p, q)
    \/ SaveLayout \/ ResetLayout
    \/ \E a \in named : RestoreLayout(a) \/ DeleteLayout(a)
    \/ \E p \in Panel : Fold(p)
    \/ ToggleTv \/ Visibility
    \/ \E n \in PageSize..MaxRow : SwapList(1..n)
-----------------------------------------------------------------------------
\* Whatever is clicked, typed and swapped in, no row that the filter rejects is
\* on the page, the page the operator is on exists, and the rows stand each once
\* in the order chosen (applyFilter, applyEngSortAndPage).
ListKeepsToFilter ==
    /\ Matching(rows, filter) \cup hidden = rows
    /\ pageNo <= AtLeast1(Ceil(Cardinality(rows), PageSize))
    /\ Range(order) = rows
    /\ \A i, j \in DOMAIN order : i < j => IF asc THEN order[i] < order[j] ELSE order[i] > order[j]

\* The panels stand as stored, in this tab until another tab stores, each in
\* one place and every grid row with its own number of them ("Rows preserve
\* their panel COUNT").
LayoutSticks ==
    /\ ~foreign => grid = Arranged(DefaultGrid, saved)
    /\ \A i \in DOMAIN grid : Len(grid[i]) = Len(DefaultGrid[i])
    /\ UNION {Range(grid[i]) : i \in DOMAIN grid} = Panel

\* TV mode turns the sections exactly while it is on and somebody can see it.
RotatesWhileWatched == rotating = IF tv /\ ~away THEN 1 ELSE 0

\* Filter, pages, panels and TV mode keep to what the operator set, in any order
\* of clicks, swaps and stores by another tab.
PageStaysInOrder == ListKeepsToFilter /\ LayoutSticks /\ RotatesWhileWatched
=============================================================================
