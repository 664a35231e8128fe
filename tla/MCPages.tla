------------------------------ MODULE MCPages ------------------------------
(* The pages of the browser, for TLC: one is shown, and it alone takes steps. *)
(* The product page; the page of the sheet, with two layers of two conditions *)
(* and a choice column; the grid; the history, with two filters and two       *)
(* entries of two pages of details; the comments of the project and of a      *)
(* cell, one on a page of the list; the administration of a choice set that   *)
(* others change once, and of parameters, of which one is edited; the wizard, *)
(* with one process and two backbones.                                        *)
EXTENDS Workspace, SheetPage, GridAdapter, HistoryWorkbench, Comments, ChoiceAdmin,
        ParameterPage, CreateWizard
VARIABLE shows  \* the page the browser shows

(* The grid: a number column and a choice column, of different categories.    *)
TwoColumns == <<"number", "choice">>
TwoCategories == [number |-> "a", choice |-> "b"]
OneOfEach == [number |-> "number", choice |-> "choice"]
RowsDropOrSwap == {<<1, 2>>, <<2>>, <<2, 1>>}
AsTyped == [r \in 0..3 |-> r]

(* The wizard is entered at its start, or by the address of the review of one *)
(* backbone, coming from that of the other.                                   *)
Review(b) == [step |-> 3, process |-> CHOOSE p \in Processes : TRUE, backbone |-> b]
Entered ==
    LET b == CHOOSE x \in Backbones : TRUE
        other == CHOOSE x \in Backbones : x # b
    IN \/ routeState = StartRoute /\ visited = {StartRoute}
       \/ routeState = Review(b) /\ visited = {Review(b), Review(other)}

ASSUME Constants == /\ SheetPageConstants /\ GridConstants /\ HistoryConstants
                    /\ CommentConstants /\ AdminConstants
                    /\ ParameterConstants /\ WizardConstants

-----------------------------------------------------------------------------
pagesVars == <<shows, vars, pageVars, gridVars, historyVars, commentVars, adminVars,
              formVars>>

PagesInit ==
    /\ shows \in {"product", "sheet", "grid", "history", "comments", "admin", "parameters",
                  "wizard"}
    /\ Init /\ HistoryInit
    /\ CommentsInit /\ (shows = "comments" \/ comments[1].target = Project)
    /\ PageInit /\ (shows = "sheet" \/ frozen)
    /\ GridInit /\ rows = <<1, 2>> /\ stored[1, "choice"] = 1
    /\ AdminInit /\ versions[1].on /\ (shows = "admin" \/ page = "list")
    /\ FormInit /\ (shows = "parameters" \/ setsOn = {})
    /\ WizardInit /\ requiredChoices = "ready" /\ Entered
    /\ (shows = "wizard" \/ routeState = StartRoute)

PagesNext ==
    \/ /\ shows = "product" /\ Next
       /\ UNCHANGED <<shows, pageVars, gridVars, historyVars, commentVars, adminVars,
                      formVars, wizardVars>>
    \/ /\ shows = "sheet" /\ PageNext
       /\ UNCHANGED <<shows, vars, gridVars, historyVars, commentVars, adminVars,
                      formVars, wizardVars>>
    \/ /\ shows = "grid" /\ GridNext
       /\ UNCHANGED <<shows, vars, pageVars, historyVars, commentVars, adminVars,
                      formVars, wizardVars>>
    \/ /\ shows = "history" /\ HistoryNext
       /\ UNCHANGED <<shows, vars, pageVars, gridVars, commentVars, adminVars,
                      formVars, wizardVars>>
    \/ /\ shows = "comments" /\ CommentsNext
       /\ UNCHANGED <<shows, vars, pageVars, gridVars, historyVars, adminVars,
                      formVars, wizardVars>>
    \/ /\ shows = "admin" /\ AdminNext
       /\ UNCHANGED <<shows, vars, pageVars, gridVars, historyVars, commentVars,
                      formVars, wizardVars>>
    \/ /\ shows = "parameters" /\ FormNext
       /\ UNCHANGED <<shows, vars, pageVars, gridVars, historyVars, commentVars,
                      adminVars, wizardVars>>
    \/ /\ shows = "wizard" /\ WizardNext
       /\ UNCHANGED <<shows, vars, pageVars, gridVars, historyVars, commentVars,
                      adminVars, formVars>>

PagesSpec == PagesInit /\ [][PagesNext]_pagesVars
=============================================================================
