------------------------------ MODULE MCOpening ------------------------------
(* What a user opens and waits for, for TLC: the start of a project, the      *)
(* options of a chooser, the comparison with the backbone.  The browser shows *)
(* one of them, and it alone takes steps, under the fairness of its module;   *)
(* or the files themselves are built and served.  The wizard has one process  *)
(* and two backbones, the chooser one option, the comparison one layer and    *)
(* two filters, on a page that may be left and opened again.                  *)
EXTENDS Release, ChoiceClient, CreateWizard, DiffWorkbench

VARIABLE opens  \* what the user has opened

(* Where the wizard is entered: at its start; by an address that names one of *)
(* the two backbones, coming from the other one or from its choice; by an     *)
(* address that names a backbone and no process, and by one of its choice.    *)
Address(step, process, backbone) == [step |-> step, process |-> process, backbone |-> backbone]
Entries ==
    LET p == CHOOSE x \in Processes : TRUE
        b == CHOOSE x \in Backbones : TRUE
        other == CHOOSE x \in Backbones : x # b
    IN {<<StartRoute, StartRoute>>, <<Address(3, p, b), Address(3, p, other)>>,
        <<Address(3, p, b), Address(2, p, Unset)>>, <<Address(3, Unset, b), StartRoute>>,
        <<Address(2, p, b), StartRoute>>}

ASSUME Constants == /\ WizardConstants /\ ClientConstants
                    /\ WorkbenchConstants /\ ReleaseConstants

-----------------------------------------------------------------------------
vars == <<opens, wizardVars, clientVars, diffVars, releaseVars>>

Init == /\ opens \in {"wizard", "chooser", "diff", "release"}
        /\ WizardInit /\ requiredChoices = "ready" /\ (opens = "wizard" \/ visited = {StartRoute})
        /\ \E e \in Entries : routeState = e[1] /\ visited = {e[1], e[2]}
        /\ ClientInit /\ (opens = "chooser" \/ (kind = "form" /\ log[1].act = {}))
        /\ WorkbenchInit /\ ReleaseInit

OfWizard == opens = "wizard" /\ UNCHANGED <<opens, clientVars, diffVars, releaseVars>>
OfChooser == opens = "chooser" /\ UNCHANGED <<opens, wizardVars, diffVars, releaseVars>>
OfDiff == opens = "diff" /\ UNCHANGED <<opens, wizardVars, clientVars, releaseVars>>

Next == \/ OfWizard /\ WizardNext
        \/ OfChooser /\ ClientNext
        \/ OfDiff /\ WorkbenchNext
        \/ opens = "release" /\ ReleaseNext /\ UNCHANGED <<opens, wizardVars, clientVars, diffVars>>

Fairness ==
    /\ WF_vars(OfWizard /\ Reconcile) /\ WF_vars(OfWizard /\ ReadAnswered)
    /\ WF_vars(OfWizard /\ PreviewAnswered) /\ WF_vars(OfWizard /\ CreateAnswered)
    /\ WF_vars(OfWizard /\ Created)
    /\ WF_vars(OfChooser /\ PollSummary) /\ WF_vars(OfChooser /\ SummaryAnswered)
    /\ WF_vars(OfChooser /\ AggregateAnswered) /\ WF_vars(OfChooser /\ Render)
    /\ WF_vars(OfChooser /\ LoadAsks) /\ WF_vars(OfChooser /\ LoadRestarts)
    /\ WF_vars(OfChooser /\ LoadFails) /\ WF_vars(OfChooser /\ LoadSucceeds)
    /\ WF_vars(OfDiff /\ Effects) /\ WF_vars(OfDiff /\ Answers)

Spec == Init /\ [][Next]_vars /\ Fairness
=============================================================================
