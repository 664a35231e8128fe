------------------------------ MODULE SheetPage ------------------------------
(* The page of a condition sheet around the edit session: what the policy of   *)
(* interactions lets the user do, the rows and columns on display, the jumps   *)
(* to a cell, the review of a paste, and the row manager with its structural   *)
(* operations.  Handlers belong to a rendering: they see the state of the last *)
(* commit, and only the refs they read tell what happened since.  Conditions   *)
(* are numbered in the order of the sheet, layers cut that order in two.       *)
EXTENDS Naturals, FiniteSets

CONSTANTS PageConditions,  \* numbers of conditions, in the order of the sheet
          Split,           \* the last condition number of the first layer
          PageColumns,     \* numbers of columns; the last one takes values of a choice set
          Nowhere,
          Filtered,        \* whether the user may have the current layer alone displayed
          MaxPageSteps     \* bound: actions of users and failures

\* What the constants must satisfy.
SheetPageConstants == /\ PageConditions \subseteq Nat /\ PageColumns \subseteq Nat
                      /\ Split \in Nat /\ MaxPageSteps \in Nat
                      /\ Filtered \in BOOLEAN /\ Nowhere \notin PageConditions \cup PageColumns

VARIABLES frozen,     \* the project is no draft: the read-only page
          existing,   \* conditions that exist
          listing,    \* conditions of the sheet last read
          shown,      \* current layer, layer filter, category
          pending,    \* the cell a jump waits to reach
          said,       \* what the page says of the last jump
          active,     \* the condition the row manager acts on
          focus,      \* the condition to be focused once it is displayed
          readOnly,   \* no lock, no project metadata, or another mutation
          choices,    \* what the choice set takes
          copied,     \* a clipboard read under way
          paste,      \* the paste under review
          applying,   \* the turn of the paste in the queue of writes
          edited,     \* cells edited
          struct,     \* the structural operation
          committed,  \* what the handlers of the last commit see
          pageSteps

pageVars == <<frozen, existing, listing, shown, pending, said, active, focus, readOnly, choices,
              copied, paste, applying, edited, struct, committed, pageSteps>>

PageActs == pageSteps < MaxPageSteps /\ pageSteps' = pageSteps + 1

LayerOf(r) == IF r <= Split THEN 1 ELSE 2
RowsForLayerViewport(s, v) == IF v.only THEN {r \in s : LayerOf(r) = v.layer} ELSE s
ColumnsShown(v) == {c \in PageColumns : v.category \in {Nowhere, c}}
Valid(cell) == cell[2] = 2 => committed.choices = "wide"

NoPaste == [cells |-> {}, valid |-> {}, written |-> {}, kept |-> {}, seen |-> {}]
NoStruct == [phase |-> "none", op |-> Nowhere, row |-> Nowhere, next |-> Nowhere, unread |-> FALSE]
UnderReview == paste # NoPaste
WriteBusy == struct.phase = "sent" \/ applying

-----------------------------------------------------------------------------
(* What a rendering shows, and the policy its handlers follow.                *)

Rendering == [readOnly |-> readOnly, busy |-> WriteBusy, paste |-> UnderReview,
              listing |-> listing, shown |-> shown, choices |-> choices]
Editable(c) == ~frozen /\ ~c.paste /\ ~c.readOnly /\ ~c.busy
CanApply(c) == c.paste /\ ~c.readOnly /\ ~c.busy
CanDiscover(c) == ~c.paste
(* Callbacks that may be late are good for the context of their rendering.    *)
Context(c) == <<Editable(c), c.shown.category, c.listing, c.choices>>

PageInit == /\ frozen \in BOOLEAN
            /\ existing = PageConditions \ {CHOOSE r \in PageConditions : r = Split}
            /\ listing = existing /\ shown = [layer |-> 1, only |-> FALSE, category |-> Nowhere]
            /\ pending = Nowhere /\ said = "none" /\ active = Nowhere /\ focus = Nowhere
            /\ readOnly = FALSE /\ choices = "wide" /\ copied = Nowhere /\ paste = NoPaste
            /\ applying = FALSE /\ edited = {} /\ struct = NoStruct /\ pageSteps = 0
            /\ committed = [readOnly |-> FALSE, busy |-> FALSE, paste |-> FALSE,
                            listing |-> listing, shown |-> shown, choices |-> "wide"]

Stay == UNCHANGED <<frozen, existing, readOnly, choices, committed>>
StayEditing == UNCHANGED <<listing, copied, paste, applying, edited, struct>>
StayPlace == UNCHANGED <<shown, pending, said, active, focus>>

(* The effects of a commit: a layer without rows is left, the row manager lets *)
(* go of a row that is gone, a jump ends, and the awaited row is focused.      *)
RecoverLayerSelection == IF listing = {} \/ \E r \in listing : LayerOf(r) = shown.layer THEN shown
                         ELSE [shown EXCEPT !.layer = 3 - shown.layer]
PruneActive == IF active \in listing \cup {focus} THEN active ELSE Nowhere
FocusArrives == focus \in RowsForLayerViewport(listing, shown)
JumpEnds == pending # Nowhere /\ pending[2] \in ColumnsShown(shown)
CommitDue == \/ committed # Rendering \/ shown # RecoverLayerSelection
             \/ JumpEnds \/ FocusArrives \/ active # PruneActive
CommitRendering ==
    /\ CommitDue
    /\ committed' = Rendering
    /\ shown' = RecoverLayerSelection
    /\ active' = PruneActive
    /\ focus' = IF FocusArrives THEN Nowhere ELSE focus
    /\ IF JumpEnds
       THEN /\ pending' = Nowhere
            /\ said' = IF pending[1] \in RowsForLayerViewport(listing, shown)
                       THEN "moved" ELSE "missing"
       ELSE UNCHANGED <<pending, said>>
    /\ copied' = IF copied # Nowhere /\ Context(Rendering) # Context(committed)
                 THEN [copied EXCEPT !.late = TRUE] ELSE copied
    /\ UNCHANGED <<frozen, existing, listing, readOnly, choices, paste, applying, edited, struct,
                   pageSteps>>

-----------------------------------------------------------------------------
(* Moving about.                                                              *)

MayDiscover == frozen \/ (CanDiscover(committed) /\ ~UnderReview)
ChooseCategory(k) == /\ PageActs /\ MayDiscover /\ shown' = [shown EXCEPT !.category = k]
                     /\ pending' = Nowhere
                     /\ Stay /\ StayEditing /\ UNCHANGED <<said, active, focus>>
JumpToColumn(c) == /\ PageActs /\ MayDiscover /\ c \notin ColumnsShown(shown)
                   /\ shown' = [shown EXCEPT !.category = c] /\ pending' = Nowhere
                   /\ Stay /\ StayEditing /\ UNCHANGED <<said, active, focus>>
ActivateLayer(l) == /\ PageActs /\ ~frozen /\ ~UnderReview /\ shown.layer # l
                    /\ shown' = [shown EXCEPT !.layer = l] /\ said' = "none"
                    /\ Stay /\ StayEditing /\ UNCHANGED <<pending, active, focus>>
ChangeCurrentLayerOnly == /\ PageActs /\ Filtered /\ ~frozen
                          /\ shown' = [shown EXCEPT !.only = ~shown.only]
                          /\ Stay /\ StayEditing /\ UNCHANGED <<pending, said, active, focus>>
(* A workbench names a cell, perhaps one the sheet no longer has.             *)
Revealed(c) == IF c \in ColumnsShown(shown) THEN shown.category ELSE c
ActivateSheetCoordinate(r, c) ==
    /\ PageActs /\ ~frozen
    /\ IF ~MayDiscover THEN said' = "paste" /\ UNCHANGED <<shown, pending>>
       ELSE IF r \notin listing THEN said' = "missing" /\ pending' = Nowhere /\ UNCHANGED shown
       ELSE /\ shown' = [shown EXCEPT !.layer = LayerOf(r), !.category = Revealed(c)]
            /\ pending' = <<r, c>> /\ said' = "none"
    /\ Stay /\ StayEditing /\ UNCHANGED <<active, focus>>
ActivateHistoryTarget(r, c) ==
    /\ PageActs /\ frozen
    /\ IF r \notin listing THEN said' = "missing" /\ UNCHANGED <<shown, pending>>
       ELSE shown' = [shown EXCEPT !.category = Nowhere] /\ pending' = <<r, c>>
                                                         /\ said' = "none"
    /\ Stay /\ StayEditing /\ UNCHANGED <<active, focus>>

Displayed(r) == r \in RowsForLayerViewport(committed.listing, committed.shown)
ConditionActivate(r) ==
    /\ PageActs /\ ~frozen /\ Displayed(r)
    /\ shown' = [shown EXCEPT !.layer = LayerOf(r)]
    /\ active' = IF Editable(committed) /\ ~UnderReview THEN r ELSE active
    /\ Stay /\ StayEditing /\ UNCHANGED <<pending, said, focus>>
ClearActive == /\ PageActs /\ active # Nowhere /\ active' = Nowhere /\ focus' = Nowhere
               /\ Stay /\ StayEditing /\ UNCHANGED <<shown, pending, said>>

-----------------------------------------------------------------------------
(* Edits and pastes.                                                          *)

IsCurrentGridInput == Editable(committed)
CellEdit(r, c) == /\ PageActs /\ Displayed(r) /\ c \in ColumnsShown(committed.shown)
                  /\ IsCurrentGridInput /\ ~UnderReview /\ <<r, c>> \notin edited
                  /\ edited' = edited \cup {<<r, c>>}
                  /\ Stay /\ StayPlace /\ UNCHANGED <<listing, copied, paste, applying, struct>>
ReadClipboard(r, c) ==
    /\ PageActs /\ copied = Nowhere /\ Editable(committed)
    /\ Displayed(r) /\ c \in ColumnsShown(committed.shown)
    /\ copied' = [row |-> r, column |-> c, late |-> FALSE,
                  display |-> RowsForLayerViewport(committed.listing, committed.shown)]
    /\ Stay /\ StayPlace /\ UNCHANGED <<listing, paste, applying, edited, struct>>

(* The cells from the target on, in the order of the sheet and of the columns. *)
From(x, s, n) == {y \in s : y >= x /\ Cardinality({z \in s : x <= z /\ z < y}) < n}
BuildPasteStaging(r, c, height, width) ==
    IF r \notin committed.listing \/ c \notin ColumnsShown(committed.shown) THEN {}
    ELSE From(r, committed.listing, height) \X From(c, ColumnsShown(committed.shown), width)
PasteArrives ==
    /\ copied # Nowhere /\ copied' = Nowhere
    /\ \E height, width \in 1..2 :
         LET cells == BuildPasteStaging(copied.row, copied.column, height, width)
         IN paste' = IF copied.late \/ ~IsCurrentGridInput \/ UnderReview \/ cells = {} THEN paste
                     ELSE [cells |-> cells, valid |-> {x \in cells : Valid(x)},
                           written |-> {}, kept |-> {}, seen |-> copied.display]
    /\ Stay /\ StayPlace /\ UNCHANGED <<listing, applying, edited, struct, pageSteps>>
CancelPaste == /\ PageActs /\ committed.paste /\ UnderReview /\ ~applying /\ paste' = NoPaste
               /\ Stay /\ StayPlace /\ UNCHANGED <<listing, copied, applying, edited, struct>>
CommitPaste == /\ PageActs /\ CanApply(committed) /\ UnderReview /\ ~applying
               /\ applying' = TRUE
               /\ Stay /\ StayPlace /\ UNCHANGED <<listing, copied, paste, edited, struct>>
(* Its turn in the queue: the cells are checked again, by the last commit; a   *)
(* paste that failed is sent again as it was.                                 *)
StagedBefore == paste.valid
RevalidatePasteStaging == {x \in paste.cells : x[1] \in committed.listing /\ Valid(x)}
ApplyPaste ==
    /\ applying /\ paste.written = {} /\ struct.phase # "sent"
    /\ LET cells == IF paste.kept # {} THEN paste.kept ELSE RevalidatePasteStaging
       IN IF cells = {} \/ readOnly
          THEN applying' = FALSE /\ UNCHANGED paste
          ELSE paste' = [paste EXCEPT !.valid = cells, !.written = cells] /\ UNCHANGED applying
    /\ Stay /\ StayPlace /\ UNCHANGED <<listing, copied, edited, struct, pageSteps>>
PasteSaved == /\ paste.written # {} /\ applying' = FALSE /\ paste' = NoPaste
              /\ edited' = edited \ paste.written
              /\ Stay /\ StayPlace /\ UNCHANGED <<listing, copied, struct, pageSteps>>
PasteFails == /\ PageActs /\ paste.written # {} /\ applying' = FALSE
              /\ paste' = [paste EXCEPT !.written = {}, !.kept = paste.written]
              /\ Stay /\ StayPlace /\ UNCHANGED <<listing, copied, edited, struct>>

-----------------------------------------------------------------------------
(* Structural operations, and the read of the sheet after them.               *)

StartStructural(op, r, next) ==
    /\ struct.phase = "none"
    /\ struct' = [phase |-> "sent", op |-> op, row |-> r, next |-> next, unread |-> FALSE]
    /\ Stay /\ StayPlace /\ UNCHANGED <<listing, copied, paste, applying, edited>>
MayManage == Editable(committed) /\ ~UnderReview /\ active # Nowhere
HandleAdd == PageActs /\ MayManage /\ StartStructural("add", active, Nowhere)
Neighbour(r) ==
    LET layer == {x \in listing : LayerOf(x) = LayerOf(r)}
        after == {x \in layer : x > r}
        before == {x \in layer : x < r}
    IN IF r \notin listing \/ layer = {r} THEN Nowhere
       ELSE IF after # {} THEN CHOOSE x \in after : \A y \in after : x <= y
       ELSE CHOOSE x \in before : \A y \in before : y <= x
HandleDelete == PageActs /\ MayManage /\ StartStructural("delete", active, Neighbour(active))
PorChange(r) == PageActs /\ IsCurrentGridInput /\ ~UnderReview /\ Displayed(r)
                         /\ StartStructural("por", r, Nowhere)

(* The answer; what it leaves active and awaited is set once the read ended.  *)
StructuralSucceeds ==
    /\ struct.phase = "sent" /\ struct.row \in existing
    /\ \/ struct.op = "add" /\ \E r \in PageConditions \ existing :
            /\ LayerOf(r) = LayerOf(struct.row) /\ existing' = existing \cup {r}
            /\ struct' = [struct EXCEPT !.phase = "read", !.next = r]
       \/ /\ struct.op = "delete" /\ existing' = existing \ {struct.row}
          /\ struct' = [struct EXCEPT !.phase = "read"]
       \/ struct.op = "por" /\ UNCHANGED existing /\ struct' = [struct EXCEPT !.phase = "read"]
    /\ UNCHANGED <<frozen, readOnly, choices, committed, listing, copied, paste, applying, edited,
                   pageSteps>>
    /\ StayPlace
StructuralFails == /\ PageActs /\ struct.phase = "sent" /\ struct' = NoStruct
                   /\ Stay /\ StayPlace
                   /\ UNCHANGED <<listing, copied, paste, applying, edited>>
AfterStructural == IF struct.op = "por" THEN UNCHANGED <<active, focus>>
                   ELSE active' = struct.next
                        /\ focus' = IF struct.next = Nowhere THEN focus ELSE struct.next
RefreshSheet == /\ struct.phase = "read" /\ listing' = existing /\ struct' = NoStruct
                /\ AfterStructural
                /\ Stay
                /\ UNCHANGED <<shown, pending, said, copied, paste, applying, edited, pageSteps>>
RefreshFails == /\ PageActs /\ struct.phase = "read"
                /\ struct' = [NoStruct EXCEPT !.unread = TRUE] /\ AfterStructural
                /\ Stay
                /\ UNCHANGED <<listing, shown, pending, said, copied, paste, applying, edited>>
RetryStructuralRefresh == /\ PageActs /\ struct.unread /\ struct.phase = "none"
                          /\ listing' = existing /\ struct' = NoStruct
                          /\ Stay /\ StayPlace /\ UNCHANGED <<copied, paste, applying, edited>>

-----------------------------------------------------------------------------
(* Around the page: the lock goes and comes, others change the conditions     *)
(* while it is gone, the sheet is read again, and choice sets change.         *)

LockChanges == /\ PageActs /\ ~frozen /\ readOnly' = ~readOnly
               /\ UNCHANGED <<frozen, existing, choices, committed>> /\ StayEditing /\ StayPlace
OtherChanges == /\ PageActs /\ readOnly
                /\ \E r \in PageConditions : existing' \in {existing \ {r}, existing \cup {r}}
                /\ existing' # existing
                /\ UNCHANGED <<frozen, readOnly, choices, committed>> /\ StayEditing
                /\ StayPlace
SheetRead == /\ listing # existing /\ struct.phase # "read" /\ listing' = existing
             /\ Stay /\ StayPlace
             /\ UNCHANGED <<copied, paste, applying, edited, struct, pageSteps>>
ChoicesChange == /\ PageActs /\ choices' \in {"wide", "narrow"} \ {choices}
                 /\ UNCHANGED <<frozen, existing, readOnly, committed>> /\ StayEditing
                 /\ StayPlace

Moves == \/ \E k \in PageColumns \cup {Nowhere} : ChooseCategory(k)
         \/ \E c \in PageColumns : JumpToColumn(c)
         \/ \E l \in 1..2 : ActivateLayer(l)
         \/ ChangeCurrentLayerOnly
         \/ \E r \in PageConditions, c \in PageColumns : ActivateSheetCoordinate(r, c)
         \/ \E r \in PageConditions, c \in PageColumns : ActivateHistoryTarget(r, c)
Edits == \/ \E r \in PageConditions, c \in PageColumns : CellEdit(r, c) \/ ReadClipboard(r, c)
         \/ PasteArrives \/ CancelPaste \/ CommitPaste \/ ApplyPaste \/ PasteSaved \/ PasteFails
Structure == \/ \E r \in PageConditions : ConditionActivate(r) \/ PorChange(r)
             \/ ClearActive \/ HandleAdd \/ HandleDelete
             \/ StructuralSucceeds \/ StructuralFails \/ RefreshSheet \/ RefreshFails
             \/ RetryStructuralRefresh
Around == LockChanges \/ OtherChanges \/ SheetRead \/ ChoicesChange
PageNext == CommitRendering \/ Moves \/ Edits \/ Structure \/ Around
PageSpec == PageInit /\ [][PageNext]_pageVars /\ WF_pageVars(CommitRendering)
                     /\ WF_pageVars(RefreshSheet)

-----------------------------------------------------------------------------

(* What a paste writes was under review, exists in the sheet rendered last,    *)
(* and is accepted by the choice set rendered last, though both may have       *)
(* changed between the staging and its turn (revalidatePasteStaging); a paste  *)
(* that failed is sent again as it was, and nothing is added to it.            *)
WritesWhatHolds ==
    [][paste'.written # paste.written =>
          \A x \in paste'.written : 
              IF paste.kept # {} THEN x \in paste.kept
              ELSE x \in paste.cells /\ x[1] \in committed.listing /\ Valid(x)]_pageVars

(* While a paste is under review, this page accepts no other edit and starts   *)
(* no structural operation, also from handlers rendered before the review.     *)
ReviewIsExclusive ==
    [][UnderReview /\ paste' # NoPaste =>
          /\ edited' \subseteq edited
          /\ paste'.cells = paste.cells
          /\ struct.phase = "none" => struct'.phase = "none"]_pageVars

(* Once a commit and its effects are through, the row manager holds a row of   *)
(* the sheet or the row it waits for, the current layer has rows, and no jump  *)
(* is left to surprise the user later.                                         *)
PageSettles ==
    ~CommitDue =>
       /\ active \in listing \cup {Nowhere, focus}
       /\ listing # {} => \E r \in listing : LayerOf(r) = shown.layer
       /\ pending = Nowhere

(* A paste writes what was under review and holds when its turn comes, and no  *)
(* other edit is accepted during the review; once its effects are through, the *)
(* page points at what exists (SheetInteractionPolicy, revalidatePasteStaging). *)
PasteWritesWhatHolds == WritesWhatHolds /\ ReviewIsExclusive /\ []PageSettles

(* A paste changes cells that were on display when it was staged.              *)
PasteLandsOnDisplay == \A x \in paste.cells : x[1] \in paste.seen
=============================================================================
