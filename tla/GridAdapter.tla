---------------------------- MODULE GridAdapter ----------------------------
(* The grid of the sheet.  The grid library knows rows and columns by number, *)
(* the application knows conditions and parameters; the adapter translates,   *)
(* and the rows, the category on display and the right to edit may change     *)
(* while the library holds a number: the selection, an open editor, a         *)
(* clipboard that is still being read, a context menu.                        *)
EXTENDS Naturals, Sequences, FiniteSets

CONSTANTS
  Columns,        \* the parameters of the sheet, in order
  Category,       \* parameter |-> its category, or None
  Kind,           \* parameter |-> "text", "number" or "choice"
  Required,       \* the parameters that may not be blank
  Orders,         \* the lists of rows the service answers with
  Raw,            \* what a user can type; 0 is blank
  Canonical,      \* input |-> the value it stands for
  Malformed,      \* input that is no number
  OutOfBounds,    \* input that is a number outside of the bounds
  MaxGridSteps,       \* bound: events
  Nothing

Parameters == {Columns[i] : i \in DOMAIN Columns}
Conditions == UNION {{o[i] : i \in DOMAIN o} : o \in Orders}
Cells == Conditions \X Parameters

\* What the constants must satisfy.
GridConstants ==
    /\ Columns \in Seq(Parameters) /\ DOMAIN Category = Parameters
    /\ Kind \in [Parameters -> {"text", "number", "choice"}]
    /\ 0 \in Raw /\ Nothing \notin Raw /\ Canonical \in [Raw -> Raw]
    /\ \A r \in Raw \ Malformed : Canonical[r] \notin Malformed
    /\ MaxGridSteps \in Nat
    /\ Orders \subseteq Seq(Conditions)
    /\ Nothing \notin Cells /\ Nothing \notin [row : Nat, col : Nat]

VARIABLES rows, category, held,  \* what the sheet hands to the grid; held: the lock is ours
          gen,                   \* the generation of the context of a paste
          selection,             \* a coordinate, with the layout it was made in
          chosen,                \* the cell the user has chosen last
          editor,                \* the open editor: its coordinate, the layout it was opened in,
                                 \* the cell meant by it, the text it starts with
          clip,                  \* the clipboard being read
          pasted,                \* the paste in review
          menu,                  \* the cell whose context menu is open
          jump,                  \* the last jump to a cell
          values, stored,        \* cells as displayed, as saved
          drafts, typed,         \* rejected input, the last input of a cell
          set, resource,         \* the choice set at the service, as the sheet knows it;
                                 \* known: whether it is active
          gridSteps

layoutVars == <<rows, category, held, gen>>
pointers == <<selection, chosen, editor, clip, pasted, menu, jump>>
cellVars == <<values, stored, drafts, typed>>
choiceVars == <<set, resource>>
gridVars == <<layoutVars, pointers, cellVars, choiceVars, gridSteps>>

GridStep == gridSteps < MaxGridSteps /\ gridSteps' = gridSteps + 1

-----------------------------------------------------------------------------
(* Coordinates.                                                               *)

(* The columns on display, by number: the k-th one has k of them up to itself. *)
Visible(c) == {i \in DOMAIN Columns : c = Nothing \/ Category[Columns[i]] = c}
UpTo(c, i) == Cardinality({j \in Visible(c) : j <= i})
VisibleColumns(c) == [k \in 1..Cardinality(Visible(c)) |->
                        Columns[CHOOSE i \in Visible(c) : UpTo(c, i) = k]]
GridLayoutAuthority(r, c) == [rows |-> r, cols |-> VisibleColumns(c)]
Layout == GridLayoutAuthority(rows, category)
ResolveCellTarget(layout, at) ==
    IF at # Nothing /\ at.row \in DOMAIN layout.rows /\ at.col \in DOMAIN layout.cols
    THEN <<layout.rows[at.row], layout.cols[at.col]>> ELSE Nothing
Coordinates(layout) == [row : DOMAIN layout.rows, col : DOMAIN layout.cols]
CurrentGridSelection == IF selection.layout = Layout THEN selection.at ELSE Nothing
SelectedCell == ResolveCellTarget(Layout, CurrentGridSelection)
CellScrollTarget(cell) == {at \in Coordinates(Layout) : ResolveCellTarget(Layout, at) = cell}

HasPaste == pasted # Nothing
CanEdit == held /\ ~HasPaste

GridInit == /\ rows \in Orders /\ category = Nothing /\ held = TRUE /\ gen = 0 /\ gridSteps = 0
            /\ selection = [layout |-> Layout, at |-> Nothing]
            /\ chosen = Nothing /\ editor = Nothing /\ clip = Nothing /\ pasted = Nothing
            /\ menu = Nothing /\ jump = Nothing
            /\ stored \in [Cells -> {0}] \cup {[c \in Cells |-> IF Kind[c[2]] = "choice" THEN 1 ELSE 0]}
            /\ values = stored
            /\ drafts = [c \in Cells |-> Nothing] /\ typed = [c \in Cells |-> Nothing]
            /\ set = [active |-> TRUE, options |-> [v \in {1, 2} |-> TRUE]]
            /\ resource = [seen |-> set, stale |-> FALSE, known |-> TRUE]

-----------------------------------------------------------------------------
(* Edits: one rule for input, and what becomes of it.                         *)

Option(view, v) == v \in DOMAIN view.options
ActiveOption(view, v) == Option(view, v) /\ view.options[v]
SelectionReady == ~resource.stale /\ resource.seen.active

Accept(v) == [ok |-> TRUE, value |-> v, dropped |-> FALSE]
Failure == [ok |-> FALSE, value |-> 0, dropped |-> FALSE]
Unavailable == [ok |-> FALSE, value |-> 0, dropped |-> TRUE]

ValidateNumber(raw) == IF raw \in Malformed \cup OutOfBounds THEN Failure ELSE Accept(Canonical[raw])
ValidateUnchanged(old) == IF resource.stale \/ Option(resource.seen, old) THEN Accept(old) ELSE Failure
OptionMayBeChosen(raw) == ActiveOption(resource.seen, raw)
ValidateNewChoice(raw) ==
    IF resource.known /\ ~resource.seen.active THEN Failure
    ELSE IF ~SelectionReady THEN Unavailable
    ELSE IF OptionMayBeChosen(raw) THEN Accept(raw) ELSE Failure
ValidateCellCandidate(p, old, raw) ==
    IF raw = 0 THEN (IF p \in Required THEN Failure ELSE Accept(0))
    ELSE IF Kind[p] = "text" THEN Accept(raw)
    ELSE IF Kind[p] = "number" THEN ValidateNumber(raw)
    ELSE IF raw = old THEN ValidateUnchanged(old) ELSE ValidateNewChoice(raw)

ShouldPersist(old, new) == old # new
ClearedKept(cell) == drafts
Cleared(cell) == [drafts EXCEPT ![cell] = Nothing]
DraftKept(cell, raw) == [drafts EXCEPT ![cell] = raw]
HandleCellEdited(at, raw) ==
    LET cell == ResolveCellTarget(Layout, at)
        result == ValidateCellCandidate(cell[2], values[cell], raw)
    IN IF cell = Nothing THEN UNCHANGED <<values, drafts, typed, gen>>
       ELSE /\ typed' = IF result.dropped THEN typed ELSE [typed EXCEPT ![cell] = raw]
            /\ IF result.ok
               THEN /\ drafts' = Cleared(cell)
                    /\ IF ShouldPersist(values[cell], result.value)
                       THEN values' = [values EXCEPT ![cell] = result.value] /\ gen' = gen + 1
                       ELSE UNCHANGED <<values, gen>>
               ELSE /\ drafts' = IF result.dropped THEN drafts ELSE DraftKept(cell, raw)
                    /\ UNCHANGED <<values, gen>>

AllowOverlay == CanEdit
EditingValue(cell) == IF drafts[cell] # Nothing THEN drafts[cell] ELSE values[cell]
OpenEditor ==
    /\ GridStep /\ editor = Nothing /\ menu = Nothing
    /\ SelectedCell # Nothing /\ AllowOverlay
    /\ editor' = [at |-> CurrentGridSelection, layout |-> Layout, meant |-> chosen,
                  initial |-> EditingValue(SelectedCell)]
    /\ UNCHANGED <<layoutVars, selection, chosen, clip, pasted, menu, jump, cellVars,
                   choiceVars>>
FinishEdit ==
    /\ GridStep /\ editor # Nothing
    /\ \E raw \in Raw : IF CanEdit THEN HandleCellEdited(editor.at, raw)
                        ELSE UNCHANGED <<values, drafts, typed, gen>>
    /\ editor' = Nothing
    /\ UNCHANGED <<rows, category, held, selection, chosen, clip, pasted, menu, jump,
                   stored, choiceVars>>
CancelEdit == /\ GridStep /\ editor # Nothing /\ editor' = Nothing
              /\ UNCHANGED <<layoutVars, selection, chosen, clip, pasted, menu, jump,
                             cellVars, choiceVars>>

-----------------------------------------------------------------------------
(* Selection, jumps, paste and the context menu.                              *)

GridSelectionChange ==
    /\ GridStep /\ editor = Nothing /\ menu' = Nothing
    /\ \E at \in Coordinates(Layout) :
         /\ selection' = [layout |-> Layout, at |-> at]
         /\ chosen' = ResolveCellTarget(Layout, at)
    /\ UNCHANGED <<layoutVars, editor, clip, pasted, jump, cellVars, choiceVars>>

Adopted(r, c) == IF selection.layout = GridLayoutAuthority(r, c) THEN selection
                 ELSE [layout |-> GridLayoutAuthority(r, c), at |-> Nothing]
NeverAdopted(r, c) == [selection EXCEPT !.layout = GridLayoutAuthority(r, c)]
AdoptLayout(r, c) == Adopted(r, c)
(* Whether an open editor outlives another layout is up to the library.      *)
Relayout(r, c) ==
    /\ rows' = r /\ category' = c /\ gen' = gen + 1
    /\ selection' = AdoptLayout(r, c)
    /\ editor' \in {editor, IF GridLayoutAuthority(r, c) = Layout THEN editor ELSE Nothing}

Orphan(cell, r) == ~ \E i \in DOMAIN r : r[i] = cell[1]
Prune(r) == [c \in Cells |-> IF Orphan(c, r) THEN Nothing ELSE drafts[c]]
RowsArrive ==
    /\ GridStep
    /\ \E r \in Orders : Relayout(r, category) /\ drafts' = Prune(r)
                         /\ typed' = [c \in Cells |-> IF Orphan(c, r) THEN Nothing ELSE typed[c]]
    /\ UNCHANGED <<held, chosen, clip, pasted, menu, jump, values, stored, choiceVars>>
RightChanges ==
    /\ GridStep /\ held' = ~held /\ gen' = gen + 1
    /\ UNCHANGED <<rows, category, pointers, cellVars, choiceVars>>
SelectCategory ==
    /\ GridStep /\ editor = Nothing /\ ~HasPaste
    /\ \E c \in {Nothing} \cup {Category[p] : p \in Parameters} : c # category /\ Relayout(rows, c)
    /\ menu' = Nothing
    /\ jump' = IF jump # Nothing /\ jump.status = "pending" THEN Nothing ELSE jump
    /\ UNCHANGED <<held, chosen, clip, pasted, cellVars, choiceVars>>

(* A jump to a cell shows the category of its column first, if it is hidden.  *)
ColumnShown(p) == Category[p] = Nothing \/ category \in {Nothing, Category[p]}
ScrollToCell(cell) ==
    IF CellScrollTarget(cell) = {}
    THEN /\ jump' = [cell |-> cell, status |-> "missing", there |-> ~Orphan(cell, rows)]
         /\ UNCHANGED <<selection, chosen>>
    ELSE /\ \E at \in CellScrollTarget(cell) : selection' = [layout |-> Layout, at |-> at]
         /\ chosen' = cell /\ jump' = [cell |-> cell, status |-> "arrived", there |-> TRUE]
ActivateWorkbenchCoordinate ==
    /\ GridStep /\ editor = Nothing /\ ~HasPaste /\ menu' = Nothing
    /\ \E cell \in Cells :
         \/ /\ Orphan(cell, rows)
            /\ jump' = [cell |-> cell, status |-> "missing", there |-> FALSE]
            /\ UNCHANGED <<layoutVars, selection, chosen, editor>>
         \/ /\ ~Orphan(cell, rows) /\ ColumnShown(cell[2])
            /\ ScrollToCell(cell) /\ UNCHANGED <<layoutVars, editor>>
         \/ /\ ~Orphan(cell, rows) /\ ~ColumnShown(cell[2])
            /\ Relayout(rows, Category[cell[2]]) /\ UNCHANGED <<held, chosen>>
            /\ jump' = [cell |-> cell, status |-> "pending", there |-> TRUE]
    /\ UNCHANGED <<clip, pasted, cellVars, choiceVars>>
JumpLands ==
    /\ jump # Nothing /\ jump.status = "pending" /\ ColumnShown(jump.cell[2])
    /\ IF Orphan(jump.cell, rows)
       THEN /\ jump' = [cell |-> jump.cell, status |-> "missing", there |-> FALSE]
            /\ UNCHANGED <<selection, chosen>>
       ELSE ScrollToCell(jump.cell)
    /\ UNCHANGED <<layoutVars, editor, clip, pasted, menu, cellVars, choiceVars, gridSteps>>

PasteStarts ==
    /\ GridStep /\ editor = Nothing /\ clip = Nothing /\ CurrentGridSelection # Nothing
    /\ clip' = [gen |-> gen, layout |-> Layout, at |-> CurrentGridSelection, held |-> CanEdit]
    /\ UNCHANGED <<layoutVars, selection, chosen, editor, pasted, menu, jump, cellVars,
                   choiceVars>>
IsCurrentPasteCallback == clip.gen = gen /\ CanEdit
HandlePaste ==
    /\ clip # Nothing /\ clip' = Nothing
    /\ IF IsCurrentPasteCallback /\ clip.held
       THEN /\ pasted' = [cell |-> ResolveCellTarget(clip.layout, clip.at),
                          shown |-> ResolveCellTarget(Layout, clip.at), held |-> held]
            /\ gen' = gen + 1
       ELSE UNCHANGED <<pasted, gen>>
    /\ UNCHANGED <<rows, category, held, selection, chosen, editor, menu, jump, cellVars,
                   choiceVars, gridSteps>>
EndReview == /\ GridStep /\ HasPaste /\ pasted' = Nothing /\ gen' = gen + 1
             /\ UNCHANGED <<rows, category, held, selection, chosen, editor, clip, menu, jump,
                                cellVars, choiceVars>>

CellContextMenu ==
    /\ GridStep /\ editor = Nothing
    /\ \E at \in Coordinates(Layout) : menu' = ResolveCellTarget(Layout, at)
    /\ UNCHANGED <<layoutVars, selection, chosen, editor, clip, pasted, jump, cellVars,
                   choiceVars>>
CloseMenu == /\ GridStep /\ menu # Nothing /\ menu' = Nothing
             /\ UNCHANGED <<layoutVars, selection, chosen, editor, clip, pasted, jump,
                                cellVars, choiceVars>>

-----------------------------------------------------------------------------
(* The service: an administrator changes the set of the choice columns, the   *)
(* sheet learns of it, the dirty cells are saved.                             *)

SetChanges ==
    /\ GridStep
    /\ \/ set' = [set EXCEPT !.active = ~@]
       \/ \E v \in DOMAIN set.options : set' = [set EXCEPT !.options[v] = ~@]
    /\ UNCHANGED <<layoutVars, pointers, cellVars, resource>>
ResourceDerived ==
    /\ GridStep /\ gen' = gen + 1
    /\ resource' \in {[seen |-> set, stale |-> FALSE, known |-> TRUE],
                      [resource EXCEPT !.seen.active = set.active, !.stale = TRUE, !.known = TRUE],
                      [resource EXCEPT !.stale = TRUE, !.known = FALSE]}
    /\ resource' # resource
    /\ UNCHANGED <<rows, category, held, pointers, cellVars, set>>

ServerAccepts(p, old, new) ==
    new = 0 \/ CASE Kind[p] = "text" -> TRUE
                 [] Kind[p] = "number" -> new \notin Malformed
                 [] Kind[p] = "choice" -> \/ new = old /\ Option(set, new)
                                          \/ new # old /\ set.active /\ ActiveOption(set, new)
Saved ==
    /\ GridStep /\ values # stored
    /\ \A c \in Cells : values[c] # stored[c] => ServerAccepts(c[2], stored[c], values[c])
    /\ stored' = values /\ gen' = gen + 1
    /\ UNCHANGED <<rows, category, held, pointers, values, drafts, typed, choiceVars>>

GridNext == \/ OpenEditor \/ FinishEdit \/ CancelEdit \/ GridSelectionChange
            \/ RowsArrive \/ RightChanges \/ SelectCategory
            \/ ActivateWorkbenchCoordinate \/ JumpLands
            \/ PasteStarts \/ HandlePaste \/ EndReview
            \/ CellContextMenu \/ CloseMenu
            \/ SetChanges \/ ResourceDerived \/ Saved

GridSpec == GridInit /\ [][GridNext]_gridVars

-----------------------------------------------------------------------------
(* A coordinate never comes to mean another cell: what is selected is what    *)
(* was chosen; an open editor is on the cell that was chosen when it was      *)
(* opened, as long as the layout is that one; and a paste in review starts at *)
(* the cell displayed where it was made, while the sheet could be edited      *)
(* (currentGridSelectionForLayout, isCurrentPasteCallback).                   *)
CoordinatesKeepTheirMeaning ==
    /\ SelectedCell \in {Nothing, chosen}
    /\ editor # Nothing /\ editor.layout = Layout
          => ResolveCellTarget(Layout, editor.at) = editor.meant
    /\ pasted # Nothing => pasted.cell = pasted.shown /\ pasted.held

(* What was typed last in a cell, by the coordinate of the editor when it was *)
(* closed, is not lost: the cell shows it, as its value or as a rejected      *)
(* draft, and no draft outlives the input that replaced it (handleCellEdited, *)
(* pruneInvalidDrafts).                                                       *)
ValueOf(c, raw) == IF raw # 0 /\ Kind[c[2]] = "number" THEN Canonical[raw] ELSE raw
TypedIsShown ==
    \A c \in Cells : typed[c] # Nothing =>
        \/ drafts[c] = typed[c]
        \/ drafts[c] = Nothing /\ values[c] = ValueOf(c, typed[c])

(* A value the grid accepts while it knows the set as it is would be saved:   *)
(* the service accepts it over what is stored (validateCellCandidate and      *)
(* cells/service.py, patch_cells).                                            *)
AcceptedIsSavable ==
    [][\A c \in Cells :
          values'[c] # values[c] /\ ~resource.stale /\ resource.seen = set =>
              ServerAccepts(c[2], stored[c], values'[c])]_gridVars

(* A jump to a cell of a column with a category says that the cell is missing *)
(* only if the sheet has no such cell (resolveWorkbenchCoordinateNavigation,  *)
(* scrollToCell).                                                             *)
JumpTellsTheTruth ==
    jump # Nothing /\ jump.status = "missing" /\ Category[jump.cell[2]] # Nothing => ~jump.there

(* The input of a cell and what is said of cells, all in one.                 *)
LastInputIsKept == [](TypedIsShown /\ JumpTellsTheTruth) /\ AcceptedIsSavable
=============================================================================
